---- MODULE Spec2Model ----
(***************************************************************************)
(* Model of the BFV league-fixture planner (src/src/app/bfv/page.tsx):     *)
(* the iCalendar parser, the fixture tag, and the book / undo / reload     *)
(* handlers of BfvPage running against the shared booking store.           *)
(*                                                                         *)
(* Text is modelled as a sequence of one-character strings, so that the    *)
(* regular expressions and prefix tests of the source are computed on      *)
(* characters.  Instants are integers (hours on one time line); the        *)
(* store compares timestamps, and the order of integers is the order of    *)
(* the ISO strings the code sends.                                         *)
(***************************************************************************)
EXTENDS Integers, Sequences, FiniteSets, Bags, TLC

VARIABLES
    \* ---- booking store (external collaborator) ----
    store,               \* rows of table "bookings", in insertion order
    nextId,              \* next identifier the store hands out
    \* ---- React state of BfvPage ----
    games,               \* useState games
    range,               \* useState range
    bookings,            \* useState bookings
    bookedMap,           \* useState bookedMap: uid -> booking id
    bookedPitchByUid,    \* useState bookedPitchByUid: uid -> pitch id
    selectedPitchByUid,  \* useState selectedPitchByUid
    error,               \* useState error
    busyUid,             \* useState busyUid
    loadingGames,        \* useState loadingGames
    homeOnly,            \* useState homeOnly
    \* ---- asynchronous handler calls in flight ----
    ops,                 \* the calls in flight (a bag): position and captured values
    scanFresh,           \* the store has not changed since the latest loadBookingsForRange
    \* ---- pure-function harnesses ----
    fn                   \* inputs and results of the pure functions under check

vars == << store, nextId, games, range, bookings, bookedMap, bookedPitchByUid,
           selectedPitchByUid, error, busyUid, loadingGames, homeOnly, ops, scanFresh,
           fn >>

pageVars == << store, nextId, games, range, bookings, bookedMap, bookedPitchByUid,
               selectedPitchByUid, error, busyUid, loadingGames, homeOnly, ops,
               scanFresh >>

-----------------------------------------------------------------------------
(* Bounds of the model *)

\* handler calls that may be in flight at once
MaxOps == 2
\* inserts the store accepts in one run
MaxInserts == 3
\* pieces a fixture summary of the tag harness is put together from
MaxPieces == 2
\* records (VEVENT blocks) of a generated feed
MaxRecords == 2
\* words a generated club name is put together from
MaxWords == 2
\* bookings of a generated booking list
MaxBookings == 2
\* local teams of a generated teams table
MaxTeams == 2

-----------------------------------------------------------------------------
(* Values *)

\* a missing text (null, undefined or ""), which the code tests with !x
NoText == <<>>
\* a missing number (age_u null): numbers are carried as <<n>>
NoNumber == <<>>
NoId == 0
NoPitch == ""
NoError == "none"

Max(S) == CHOOSE x \in S : \A y \in S : y <= x
Min(S) == CHOOSE x \in S : \A y \in S : x <= y

-----------------------------------------------------------------------------
(* Text helpers: String.prototype functions on character sequences *)

UpperChars == {"A","B","C","D","E","F","G","I","L","M","N","O","P","R","S","T","U","V","X","Y","Z"}

LowerOf == [c \in UpperChars |->
    CASE c = "A" -> "a" [] c = "B" -> "b" [] c = "C" -> "c" [] c = "D" -> "d"
      [] c = "E" -> "e" [] c = "F" -> "f" [] c = "G" -> "g" [] c = "I" -> "i"
      [] c = "L" -> "l" [] c = "M" -> "m" [] c = "N" -> "n" [] c = "O" -> "o"
      [] c = "P" -> "p" [] c = "R" -> "r" [] c = "S" -> "s" [] c = "T" -> "t"
      [] c = "U" -> "u" [] c = "V" -> "v" [] c = "X" -> "x" [] c = "Y" -> "y"
      [] c = "Z" -> "z"]

\* one character folded for a case-insensitive comparison (regex flag i)
FoldCase(c) == IF c \in UpperChars THEN LowerOf[c] ELSE c

\* s.startsWith(p)
StartsWith(s, p) == Len(s) >= Len(p) /\ SubSeq(s, 1, Len(p)) = p

\* the text p occurs in s at index i, compared case-insensitively
OccursAtFold(s, p, i) ==
    /\ i + Len(p) - 1 <= Len(s)
    /\ \A k \in 1..Len(p) : FoldCase(s[i + k - 1]) = FoldCase(p[k])

UpperCaseChars == <<"A","B","C","D","E","F","G","H","I","J","K","L","M","N","O","P","Q",
                    "R","S","T","U","V","W","X","Y","Z","A:","O:","U:","E'">>
LowerCaseChars == <<"a","b","c","d","e","f","g","h","i","j","k","l","m","n","o","p","q",
                    "r","s","t","u","v","w","x","y","z","a:","o:","u:","e'">>

\* one character of s.toLowerCase()
toLowerCase(c) ==
    IF \E k \in 1..Len(UpperCaseChars) : UpperCaseChars[k] = c
    THEN LowerCaseChars[CHOOSE k \in 1..Len(UpperCaseChars) : UpperCaseChars[k] = c]
    ELSE c

\* norm.includes(t)
Includes(norm, t) ==
    \E i \in 1..(Len(norm) + 1) : i + Len(t) - 1 <= Len(norm) /\ SubSeq(norm, i, i + Len(t) - 1) = t

-----------------------------------------------------------------------------
(* Fixture tag *)

TagOpen == <<"[","B","F","V","_","U","I","D",":">>
NotePrefix == <<"[","B","F","V","]"," ">>

\* the regex /\[BFV_UID:([^\]]+)\]/i matches starting at index i of note
TagMatchesAt(note, i) ==
    /\ OccursAtFold(note, TagOpen, i)
    /\ \E j \in (i + Len(TagOpen) + 1)..Len(note) :
          /\ note[j] = "]"
          /\ \A m \in (i + Len(TagOpen))..(j - 1) : note[m] # "]"

\* the capture group of the match starting at i: up to the first "]"
TagCapture(note, i) ==
    LET from == i + Len(TagOpen)
        close == Min({j \in from..Len(note) : note[j] = "]"})
    IN  SubSeq(note, from, close - 1)

findBfvUid(note) ==
    IF note = NoText THEN NoText
    ELSE LET hits == {i \in 1..Len(note) : TagMatchesAt(note, i)}
         IN  IF hits = {} THEN NoText ELSE TagCapture(note, Min(hits))

\* note written by bookApproved
NoteOf(summary, uid) == NotePrefix \o summary \o <<"\n">> \o TagOpen \o uid \o <<"]">>

-----------------------------------------------------------------------------
(* Calendar parser *)

\* white space as String.prototype.trim sees it, on the characters of the model
Whitespace == {" ", "\t", "\r", "\n"}

TrimStart(s) ==
    LET ks == {k \in 1..Len(s) : s[k] \notin Whitespace}
    IN  IF ks = {} THEN <<>> ELSE SubSeq(s, Min(ks), Len(s))

Trim(s) ==
    LET ks == {k \in 1..Len(s) : s[k] \notin Whitespace}
    IN  IF ks = {} THEN <<>> ELSE SubSeq(s, Min(ks), Max(ks))

\* s.slice(n)
Slice(s, n) == SubSeq(s, n + 1, Len(s))

\* raw.replace(/\r\n/g, "\n").split("\n"): the text is cut at every "\n", and a
\* "\r" right before the "\n" goes with it
SplitLines(raw) ==
    LET breaks == {k \in 1..Len(raw) : raw[k] = "\n"}
        nth(j) == CHOOSE k \in breaks : Cardinality({x \in breaks : x <= k}) = j
        from(j) == IF j = 1 THEN 1 ELSE nth(j - 1) + 1
        upto(j) == IF j > Cardinality(breaks) THEN Len(raw)
                   ELSE IF nth(j) > from(j) /\ raw[nth(j) - 1] = "\r" THEN nth(j) - 2
                   ELSE nth(j) - 1
    IN  [j \in 1..(Cardinality(breaks) + 1) |-> SubSeq(raw, from(j), upto(j))]

\* /^[ \t]/.test(line)
IsContinuation(line) == Len(line) > 0 /\ line[1] \in {" ", "\t"}

RECURSIVE UnfoldFrom(_, _, _)
UnfoldFrom(lines, k, out) ==
    IF k > Len(lines) THEN out
    ELSE IF IsContinuation(lines[k]) /\ Len(out) > 0
         THEN UnfoldFrom(lines, k + 1,
                         [out EXCEPT ![Len(out)] = out[Len(out)] \o TrimStart(lines[k])])
    ELSE UnfoldFrom(lines, k + 1, Append(out, lines[k]))

unfoldIcsLines(raw) == UnfoldFrom(SplitLines(raw), 1, <<>>)

Digits == {"0","1","2","3","4","5","6","7","8","9"}

DigitValue(c) ==
    CASE c = "0" -> 0 [] c = "1" -> 1 [] c = "2" -> 2 [] c = "3" -> 3 [] c = "4" -> 4
      [] c = "5" -> 5 [] c = "6" -> 6 [] c = "7" -> 7 [] c = "8" -> 8 [] c = "9" -> 9

\* +"dddd": the number the digits v[from..to] spell
RECURSIVE NumberOf(_, _, _)
NumberOf(v, from, to) ==
    IF to < from THEN 0 ELSE 10 * NumberOf(v, from, to - 1) + DigitValue(v[to])

\* a Date that parseDt could not build
NoDate == <<>>

\* mutant of parseDt: the pattern is not anchored at its end
parseDtUnanchored(v) ==
    IF /\ Len(v) >= 15
       /\ \A k \in (1..8) \cup (10..15) : v[k] \in Digits
       /\ v[9] = "T"
    THEN << IF Len(v) >= 16 /\ v[16] = "Z" THEN "utc" ELSE "local",
            NumberOf(v, 1, 4), NumberOf(v, 5, 6) - 1, NumberOf(v, 7, 8),
            NumberOf(v, 10, 11), NumberOf(v, 12, 13), NumberOf(v, 14, 15) >>
    ELSE NoDate

\* parseDt: /^(\d{4})(\d{2})(\d{2})T(\d{2})(\d{2})(\d{2})(Z)?$/; the Date is kept
\* as the arguments it is built from, <<"utc" or "local", Y, Mo - 1, D, H, Mi, S>>
parseDt(v) ==
    IF /\ Len(v) \in {15, 16}
       /\ \A k \in (1..8) \cup (10..15) : v[k] \in Digits
       /\ v[9] = "T"
       /\ (Len(v) = 16 => v[16] = "Z")
    THEN << IF Len(v) = 16 THEN "utc" ELSE "local",
            NumberOf(v, 1, 4), NumberOf(v, 5, 6) - 1, NumberOf(v, 7, 8),
            NumberOf(v, 10, 11), NumberOf(v, 12, 13), NumberOf(v, 14, 15) >>
    ELSE NoDate

\* line.split(":").slice(1).join(":")
AfterFirstColon(line) ==
    LET ks == {k \in 1..Len(line) : line[k] = ":"}
    IN  IF ks = {} THEN <<>> ELSE SubSeq(line, Min(ks) + 1, Len(line))

KwBegin == <<"B","E","G","I","N",":","V","E","V","E","N","T">>
KwEnd == <<"E","N","D",":","V","E","V","E","N","T">>
KwUid == <<"U","I","D",":">>
KwSummary == <<"S","U","M","M","A","R","Y",":">>
KwLocation == <<"L","O","C","A","T","I","O","N",":">>
KwDtStart == <<"D","T","S","T","A","R","T">>
KwDtEnd == <<"D","T","E","N","D">>

\* the locals of parseIcs before the loop
ParserStart ==
    [inEvent |-> FALSE, uid |-> <<>>, summary |-> <<>>, location |-> <<>>,
     dtStart |-> NoDate, dtEnd |-> NoDate, games |-> <<>>]

\* mutant of RecordComplete: the identifier is not asked for
RecordCompleteWithoutUid(st) ==
    st.inEvent /\ st.summary # <<>> /\ st.dtStart # NoDate /\ st.dtEnd # NoDate

\* inEvent && uid && summary && dtStart && dtEnd
RecordComplete(st) ==
    st.inEvent /\ st.uid # <<>> /\ st.summary # <<>> /\ st.dtStart # NoDate
               /\ st.dtEnd # NoDate

\* one turn of the loop "for (const line of lines)"
ParseLine(st, line) ==
    IF StartsWith(line, KwBegin)
    THEN [st EXCEPT !.inEvent = TRUE, !.uid = <<>>, !.summary = <<>>, !.location = <<>>,
                    !.dtStart = NoDate, !.dtEnd = NoDate]
    ELSE IF StartsWith(line, KwEnd)
    THEN [st EXCEPT !.inEvent = FALSE,
                    !.games = IF RecordComplete(st)
                              THEN Append(@, [uid |-> st.uid, summary |-> st.summary,
                                              start |-> st.dtStart, end |-> st.dtEnd,
                                              location |-> st.location, isHome |-> "null"])
                              ELSE @]
    ELSE IF ~st.inEvent THEN st
    ELSE IF StartsWith(line, KwUid) THEN [st EXCEPT !.uid = Trim(Slice(line, 4))]
    ELSE IF StartsWith(line, KwSummary) THEN [st EXCEPT !.summary = Trim(Slice(line, 8))]
    ELSE IF StartsWith(line, KwLocation) THEN [st EXCEPT !.location = Trim(Slice(line, 9))]
    ELSE IF StartsWith(line, KwDtStart)
    THEN [st EXCEPT !.dtStart = parseDt(Trim(AfterFirstColon(line)))]
    ELSE IF StartsWith(line, KwDtEnd)
    THEN [st EXCEPT !.dtEnd = parseDt(Trim(AfterFirstColon(line)))]
    ELSE st

RECURSIVE ParseFrom(_, _, _)
ParseFrom(lines, k, st) ==
    IF k > Len(lines) THEN st ELSE ParseFrom(lines, k + 1, ParseLine(st, lines[k]))

parseIcs(icsText) == ParseFrom(unfoldIcsLines(icsText), 1, ParserStart).games

-----------------------------------------------------------------------------
(* Home / away classification: normalizeForMatch, buildMatchTokens,
   splitHomeAway and the classification of loadGames.

   Characters outside ASCII are written with names of their own:
   "a:" "o:" "u:" "A:" "O:" "U:" are the umlauts, "sz" is the sharp s,
   "e'" is e with acute, "(:)" and "(')" are the combining diaeresis
   (U+0308) and the combining acute (U+0301), "--" is the en-dash. *)

\* one character of s.normalize("NFKD"): a precomposed letter becomes its base
\* letter and a combining mark; the sharp s has no decomposition
Nfkd(c) ==
    CASE c = "a:" -> <<"a", "(:)">> [] c = "o:" -> <<"o", "(:)">>
      [] c = "u:" -> <<"u", "(:)">> [] c = "A:" -> <<"A", "(:)">>
      [] c = "O:" -> <<"O", "(:)">> [] c = "U:" -> <<"U", "(:)">>
      [] c = "e'" -> <<"e", "(')">> [] c = "E'" -> <<"E", "(')">>
      [] OTHER -> <<c>>

\* the characters of /[\u0300-\u036f]/
CombiningMarks == {"(:)", "(')"}

\* the characters of /[a-z0-9]/
AlnumLower == {LowerCaseChars[k] : k \in 1..26} \cup Digits

\* s.normalize("NFKD"), character by character
RECURSIVE Decomposed(_, _)
Decomposed(s, k) ==
    IF k > Len(s) THEN <<>> ELSE Nfkd(s[k]) \o Decomposed(s, k + 1)

\* one character of .replace(/a-umlaut/g, "ae").replace(/o-umlaut/g, "oe")
\* .replace(/u-umlaut/g, "ue").replace(/sharp s/g, "ss")
Digraph(c) ==
    CASE c = "a:" -> <<"a", "e">> [] c = "o:" -> <<"o", "e">>
      [] c = "u:" -> <<"u", "e">> [] c = "sz" -> <<"s", "s">>
      [] OTHER -> <<c>>

RECURSIVE Digraphed(_, _)
Digraphed(s, k) ==
    IF k > Len(s) THEN <<>> ELSE Digraph(s[k]) \o Digraphed(s, k + 1)

\* the characters of s at the positions keep, in order
CharsAt(s, keep) ==
    [j \in 1..Cardinality(keep) |->
        s[CHOOSE k \in keep : Cardinality({x \in keep : x <= k}) = j]]

\* .replace(/[^a-z0-9]+/g, " ").replace(/\s+/g, " "): every run of other
\* characters becomes one blank
BlankRuns(s) ==
    LET blanked == [k \in 1..Len(s) |-> IF s[k] \in AlnumLower THEN s[k] ELSE " "]
    IN  CharsAt(blanked, {k \in 1..Len(s) : blanked[k] # " " \/ k = 1 \/ blanked[k - 1] # " "})

normalizeForMatch(s) ==
    LET lower == [k \in 1..Len(s) |-> toLowerCase(s[k])]
        stripped == SelectSeq(Decomposed(lower, 1), LAMBDA c : c \notin CombiningMarks)
    IN  Trim(BlankRuns(Digraphed(stripped, 1)))

STOPWORDS == {
    <<"f","c">>,
    <<"t","s","v">>,
    <<"s","v">>,
    <<"s","c">>,
    <<"s","g">>,
    <<"j","f","g">>,
    <<"e","v">>,
    <<"e">>,
    <<"v">>,
    <<"m","u","e","n","c","h","e","n">>,
    <<"m","u","n","c","h","e","n">>,
    <<"m","u","e","n","c","h">>,
    <<"m">>,
    <<"i","i">>,
    <<"i","i","i">>,
    <<"i","v">>,
    <<"i">>,
    <<"u">>,
    <<"j","u","n","i","o","r","e","n">>,
    <<"j","u","n","i","o","r","i","n","n","e","n">> }

\* s.split(c) for a one-character separator c
SplitOn(s, c) ==
    LET cuts == {k \in 1..Len(s) : s[k] = c}
        nth(j) == CHOOSE k \in cuts : Cardinality({x \in cuts : x <= k}) = j
        from(j) == IF j = 1 THEN 1 ELSE nth(j - 1) + 1
        upto(j) == IF j > Cardinality(cuts) THEN Len(s) ELSE nth(j) - 1
    IN  [j \in 1..(Cardinality(cuts) + 1) |-> SubSeq(s, from(j), upto(j))]

\* /^u\d{1,2}$/.test(w)
IsAgeCategory(w) ==
    /\ Len(w) \in {2, 3}
    /\ w[1] = "u"
    /\ \A k \in 2..Len(w) : w[k] \in Digits

\* the words of one name that are pushed to tokens
TokensOfName(n) ==
    SelectSeq(SplitOn(normalizeForMatch(n), " "),
              LAMBDA w : /\ w # <<>>
                         /\ w \notin STOPWORDS
                         /\ ~IsAgeCategory(w)
                         /\ ~(Len(w) < 3))

\* Array.from(new Set(tokens)): the first occurrence of every token
Distinct(tokens) ==
    CharsAt(tokens, {k \in 1..Len(tokens) : \A j \in 1..(k - 1) : tokens[j] # tokens[k]})

RECURSIVE PushedTokens(_, _)
PushedTokens(names, k) ==
    IF k > Len(names) THEN <<>> ELSE TokensOfName(names[k]) \o PushedTokens(names, k + 1)

\* mutant of buildMatchTokens: short words are not skipped
buildMatchTokensKeepShort(names) ==
    LET Words(n) == SelectSeq(SplitOn(normalizeForMatch(n), " "),
                              LAMBDA w : w # <<>> /\ w \notin STOPWORDS /\ ~IsAgeCategory(w))
    IN  Distinct(Words(names[1]) \o Words(names[2]))

\* mutant of buildMatchTokens: the tokens are returned as pushed
buildMatchTokensAsPushed(names) == PushedTokens(names, 1)

buildMatchTokens(names) == Distinct(PushedTokens(names, 1))

\* s.includes(sep) at index i
OccursAt(s, sep, i) == i + Len(sep) - 1 <= Len(s) /\ SubSeq(s, i, i + Len(sep) - 1) = sep

\* const [l, r] = teamPart.split(sep): the text before the first sep, and the
\* text between the first sep and the next one (or the end); r is missing
\* (empty here, tested with && alike) when there is no sep
SplitPair(teamPart, sep) ==
    LET hits == {i \in 1..Len(teamPart) : OccursAt(teamPart, sep, i)}
        first == Min(hits)
        from == first + Len(sep)
        later == {i \in hits : i >= from}
    IN  IF hits = {} THEN [l |-> teamPart, r |-> <<>>]
        ELSE [l |-> SubSeq(teamPart, 1, first - 1),
              r |-> SubSeq(teamPart, from, IF later = {} THEN Len(teamPart) ELSE Min(later) - 1)]

SepHyphen == <<" ", "-", " ">>
SepEnDash == <<" ", "--", " ">>

\* summary.split(",")[0] || summary
TeamPart(summary) ==
    LET first == SplitOn(summary, ",")[1]
    IN  IF first = <<>> THEN summary ELSE first

\* teamPart.match(/^(.*?)[\s]*[-\u2013][\s]*(.*)$/): group 1 ends before the
\* white space in front of the first hyphen or en-dash, group 2 starts after
\* the white space behind it
DashMatch(teamPart) ==
    LET dashes == {k \in 1..Len(teamPart) : teamPart[k] \in {"-", "--"}}
        h == Min(dashes)
        before == {k \in 1..(h - 1) : teamPart[k] \notin Whitespace}
        after == {k \in (h + 1)..Len(teamPart) : teamPart[k] \notin Whitespace}
    IN  IF dashes = {} THEN [l |-> <<>>, r |-> <<>>]
        ELSE [l |-> IF before = {} THEN <<>> ELSE SubSeq(teamPart, 1, Max(before)),
              r |-> IF after = {} THEN <<>> ELSE SubSeq(teamPart, Min(after), Len(teamPart))]

\* the result null of splitHomeAway
NoParts == [ok |-> FALSE, left |-> <<>>, right |-> <<>>]

splitHomeAway(summary) ==
    LET teamPart == TeamPart(summary)
        hy == SplitPair(teamPart, SepHyphen)
        en == SplitPair(teamPart, SepEnDash)
        m == DashMatch(teamPart)
    IN  IF Includes(teamPart, SepHyphen) /\ hy.l # <<>> /\ hy.r # <<>>
        THEN [ok |-> TRUE, left |-> Trim(hy.l), right |-> Trim(hy.r)]
        ELSE IF Includes(teamPart, SepEnDash) /\ en.l # <<>> /\ en.r # <<>>
        THEN [ok |-> TRUE, left |-> Trim(en.l), right |-> Trim(en.r)]
        ELSE IF m.l # <<>> /\ m.r # <<>>
        THEN [ok |-> TRUE, left |-> Trim(m.l), right |-> Trim(m.r)]
        ELSE NoParts

\* matchSide of loadGames
matchSide(tokens, s) ==
    LET norm == normalizeForMatch(s)
    IN  IF Len(tokens) > 0 THEN \E k \in 1..Len(tokens) : Includes(norm, tokens[k]) ELSE FALSE

\* tokens.length && tokens.some((t) => locNorm.includes(t))
VenueMatch(tokens, location) ==
    LET locNorm == normalizeForMatch(location)
    IN  Len(tokens) > 0 /\ \E k \in 1..Len(tokens) : Includes(locNorm, tokens[k])

\* mutant of isHomeOf: the sides are taken the other way round
isHomeSidesSwapped(tokens, summary, location) ==
    LET parts == splitHomeAway(summary)
        leftMatch == matchSide(tokens, parts.right)
        rightMatch == matchSide(tokens, parts.left)
    IN  IF parts.ok
        THEN IF leftMatch /\ ~rightMatch THEN "true"
             ELSE IF rightMatch /\ ~leftMatch THEN "false"
             ELSE IF leftMatch /\ rightMatch THEN "true"
             ELSE "null"
        ELSE IF VenueMatch(tokens, location) THEN "true" ELSE "null"

\* mutant of isHomeOf: a match on both sides is left undecided
isHomeBothUndecided(tokens, summary, location) ==
    LET parts == splitHomeAway(summary)
        leftMatch == matchSide(tokens, parts.left)
        rightMatch == matchSide(tokens, parts.right)
    IN  IF parts.ok
        THEN IF leftMatch /\ ~rightMatch THEN "true"
             ELSE IF rightMatch /\ ~leftMatch THEN "false"
             ELSE "null"
        ELSE IF VenueMatch(tokens, location) THEN "true" ELSE "null"

\* mutant of isHomeOf: only a match on the left side alone makes a home game
isHomeLeftOnly(tokens, summary, location) ==
    LET parts == splitHomeAway(summary)
        leftMatch == matchSide(tokens, parts.left)
        rightMatch == matchSide(tokens, parts.right)
    IN  IF parts.ok
        THEN IF leftMatch /\ ~rightMatch THEN "true"
             ELSE IF rightMatch THEN "false"
             ELSE "null"
        ELSE IF VenueMatch(tokens, location) THEN "true" ELSE "null"

\* mutant of isHomeOf: the venue is not looked at
isHomeVenueIgnored(tokens, summary, location) ==
    LET parts == splitHomeAway(summary)
        leftMatch == matchSide(tokens, parts.left)
        rightMatch == matchSide(tokens, parts.right)
    IN  IF parts.ok
        THEN IF leftMatch /\ ~rightMatch THEN "true"
             ELSE IF rightMatch /\ ~leftMatch THEN "false"
             ELSE IF leftMatch /\ rightMatch THEN "true"
             ELSE "null"
        ELSE "null"

\* isHome of one game, as the map callback of loadGames sets it: "true",
\* "false" or "null"
isHomeOf(tokens, summary, location) ==
    LET parts == splitHomeAway(summary)
        leftMatch == matchSide(tokens, parts.left)
        rightMatch == matchSide(tokens, parts.right)
    IN  IF parts.ok
        THEN IF leftMatch /\ ~rightMatch THEN "true"
             ELSE IF rightMatch /\ ~leftMatch THEN "false"
             ELSE IF leftMatch /\ rightMatch THEN "true"
             ELSE "null"
        ELSE IF VenueMatch(tokens, location) THEN "true" ELSE "null"

\* mutant of HomeOnlyFilter: undecided games are removed as well
HomeOnlyFilterStrict(checked, parsed) ==
    IF checked THEN SelectSeq(parsed, LAMBDA g : g.isHome = "true") ELSE parsed

\* homeOnly ? parsed.filter((g) => g.isHome !== false) : parsed
HomeOnlyFilter(checked, parsed) ==
    IF checked THEN SelectSeq(parsed, LAMBDA g : g.isHome # "false") ELSE parsed

-----------------------------------------------------------------------------
(* Reference data of the page *)

\* pitches (useState pitches, ordered by name)
Pitches == << [id |-> "p1", name |-> <<"P","l","a","t","z"," ","M","i","t","t","e">>, type |-> "GROSSFELD"],
              [id |-> "p2", name |-> <<"P","l","a","t","z"," ","k","l","e","i","n">>, type |-> "KOMPAKT"] >>

\* the selected club and the selected external team
selectedClub == [id |-> "c1", name |-> <<"N","o","r","d">>]
selectedBfvTeam == [id |-> "t1", name |-> <<"U","1","3">>, age_u |-> NoNumber]

UidF1 == <<"f","1">>
UidF2 == <<"f","2">>
UidF3 == <<"f","3">>

\* parseIcs(icsText) of the team's feed: two games whose summary names no
\* teams and an away game
FeedParsed == << [uid |-> UidF1, summary |-> <<"A">>, location |-> NoText, start |-> 2, end |-> 4],
                 [uid |-> UidF2, summary |-> <<"B">>, location |-> NoText, start |-> 3, end |-> 5],
                 [uid |-> UidF3, summary |-> <<"C"," ","-"," ","N","o","r","d">>, location |-> NoText,
                  start |-> 3, end |-> 5] >>

\* parsed.map((g) => ({ ...g, isHome })) with the tokens of club and team
FeedClassified ==
    LET tokens == buildMatchTokens(<<selectedClub.name, selectedBfvTeam.name>>)
    IN  [k \in 1..Len(FeedParsed) |->
            [uid |-> FeedParsed[k].uid, summary |-> FeedParsed[k].summary,
             start |-> FeedParsed[k].start, end |-> FeedParsed[k].end,
             isHome |-> isHomeOf(tokens, FeedParsed[k].summary, FeedParsed[k].location)]]

\* the games the page shows while "nur Heimspiele" is checked
FeedGames == HomeOnlyFilter(TRUE, FeedClassified)

Uids == {FeedParsed[i].uid : i \in 1..Len(FeedParsed)}

\* the clock, and the 30 days loadGames adds to it when the feed is empty
Now == 0
ThirtyDays == 720

\* a request made on the request form (NewRequestClient.submit), no tag
ExternalBooking == [id |-> 99, start_at |-> 1, end_at |-> 3, status |-> "REQUESTED",
                    note |-> NoText, pitch_id |-> "p1"]

InitStores == { <<>>, <<ExternalBooking>> }

-----------------------------------------------------------------------------
(* Availability *)

BLOCKING_STATUSES == {"REQUESTED", "APPROVED"}

\* mutant of StatusUpper: the status is compared as it is written
StatusAsWritten(s) == s

\* String(b.status || "").toUpperCase() on the statuses of the model; a
\* missing status is ""
StatusUpper(s) ==
    CASE s \in {"requested", "Requested", "REQUESTED"} -> "REQUESTED"
      [] s \in {"approved", "Approved", "APPROVED"} -> "APPROVED"
      [] s \in {"rejected", "Rejected", "REJECTED"} -> "REJECTED"
      [] s \in {"cancelled", "CANCELLED"} -> "CANCELLED"
      [] OTHER -> s

\* mutant of overlaps: intervals that only touch overlap as well
overlapsClosed(aStart, aEnd, bStart, bEnd) == aStart <= bEnd /\ bStart <= aEnd

overlaps(aStart, aEnd, bStart, bEnd) == aStart < bEnd /\ bStart < aEnd

\* the name of pitch p holds "mitte" or "rechts", in any case of letters
NameInZone(p) ==
    LET n == [k \in 1..Len(p.name) |-> toLowerCase(p.name[k])]
    IN  Includes(n, <<"m","i","t","t","e">>) \/ Includes(n, <<"r","e","c","h","t","s">>)

\* mutant of allowedPitchesForAge: the restriction starts above 14
allowedPitchesForAgeAbove14(pitches, ageU) ==
    IF ageU # NoNumber /\ ageU[1] > 14
    THEN SelectSeq(pitches, LAMBDA p : p.type = "GROSSFELD" /\ NameInZone(p))
    ELSE pitches

\* allowedPitchesForAge, with the pitches it closes over
allowedPitchesForAge(pitches, ageU) ==
    IF ageU # NoNumber /\ ageU[1] >= 14
    THEN SelectSeq(pitches, LAMBDA p : p.type = "GROSSFELD" /\ NameInZone(p))
    ELSE pitches

\* mutant of getAvailablePitches: a booking on any pitch collides
getAvailablePitchesAnyPitch(pitches, ageU, game, bookingsList) ==
    LET candidates == allowedPitchesForAge(pitches, ageU)
        blockingBookings ==
            SelectSeq(bookingsList, LAMBDA b : StatusUpper(b.status) \in BLOCKING_STATUSES)
        collision(p) ==
            \E k \in 1..Len(blockingBookings) :
                overlaps(game.start, game.end,
                         blockingBookings[k].start_at, blockingBookings[k].end_at)
    IN  SelectSeq(candidates, LAMBDA p : ~collision(p))

\* getAvailablePitches, with the pitches and the team's age_u it closes over
getAvailablePitches(pitches, ageU, game, bookingsList) ==
    LET candidates == allowedPitchesForAge(pitches, ageU)
        blockingBookings ==
            SelectSeq(bookingsList, LAMBDA b : StatusUpper(b.status) \in BLOCKING_STATUSES)
        collision(p) ==
            \E k \in 1..Len(blockingBookings) :
                /\ blockingBookings[k].pitch_id = p.id
                /\ overlaps(game.start, game.end,
                            blockingBookings[k].start_at, blockingBookings[k].end_at)
    IN  SelectSeq(candidates, LAMBDA p : ~collision(p))

-----------------------------------------------------------------------------
(* Booking store *)

\* the store refuses a row that overlaps a row on the same pitch
StoreRejects(rows, b) ==
    \E k \in 1..Len(rows) :
        /\ rows[k].pitch_id = b.pitch_id
        /\ rows[k].start_at < b.end_at /\ b.start_at < rows[k].end_at

\* delete().eq("id", id): no row with that id is not an error
StoreDelete(rows, id) == SelectSeq(rows, LAMBDA b : b.id # id)

\* .gte("start_at", startISO).lt("end_at", endISO)
RangeQuery(rows, rangeStart, rangeEnd) ==
    SelectSeq(rows, LAMBDA b : b.start_at >= rangeStart /\ b.end_at < rangeEnd)

-----------------------------------------------------------------------------
(* loadBookingsForRange: the uid maps *)

EmptyIdMap == [u \in Uids |-> NoId]
EmptyPitchMap == [u \in Uids |-> NoPitch]

\* the loop "for (const b of list)": a later booking overwrites an earlier one.
\* Keys that are no uid of the feed are never looked up and are not kept.
RECURSIVE ScanLoop(_, _, _)
ScanLoop(list, k, acc) ==
    IF k > Len(list) THEN acc
    ELSE LET b == list[k]
             uid == findBfvUid(b.note)
         IN  IF uid = NoText \/ uid \notin Uids
             THEN ScanLoop(list, k + 1, acc)
             ELSE ScanLoop(list, k + 1,
                     [uidToBookingId |-> [acc.uidToBookingId EXCEPT ![uid] = b.id],
                      uidToPitchId   |-> [acc.uidToPitchId EXCEPT ![uid] = b.pitch_id]])

\* mutant of ScanMaps: an earlier booking is not overwritten by a later one
RECURSIVE ScanLoopKeepFirst(_, _, _)
ScanLoopKeepFirst(list, k, acc) ==
    IF k > Len(list) THEN acc
    ELSE LET b == list[k]
             uid == findBfvUid(b.note)
         IN  IF uid = NoText \/ uid \notin Uids \/ acc.uidToBookingId[uid] # NoId
             THEN ScanLoopKeepFirst(list, k + 1, acc)
             ELSE ScanLoopKeepFirst(list, k + 1,
                     [uidToBookingId |-> [acc.uidToBookingId EXCEPT ![uid] = b.id],
                      uidToPitchId   |-> [acc.uidToPitchId EXCEPT ![uid] = b.pitch_id]])

ScanMapsKeepFirst(list) ==
    ScanLoopKeepFirst(list, 1, [uidToBookingId |-> EmptyIdMap, uidToPitchId |-> EmptyPitchMap])

ScanMaps(list) ==
    ScanLoop(list, 1, [uidToBookingId |-> EmptyIdMap, uidToPitchId |-> EmptyPitchMap])

-----------------------------------------------------------------------------
(* loadGames: range and default pitches *)

NoRange == [start |-> -1, end |-> -1]

RangeOf(filtered) ==
    IF Len(filtered) = 0
    THEN [start |-> Now, end |-> Now + ThirtyDays]
    ELSE [start |-> Min({filtered[k].start : k \in 1..Len(filtered)}),
          end   |-> Max({filtered[k].end : k \in 1..Len(filtered)})]

\* the defaults of loadGames merged into the previous selection
DefaultsMerged(prev, filtered, bookingList, uidToPitchId) ==
    [u \in Uids |->
        LET ks == {k \in 1..Len(filtered) : filtered[k].uid = u}
        IN  IF ks = {} THEN prev[u]
            ELSE LET g == filtered[Max(ks)]
                     avail == getAvailablePitches(Pitches, selectedBfvTeam.age_u, g, bookingList)
                 IN  IF uidToPitchId[u] # NoPitch THEN uidToPitchId[u]
                     ELSE IF Len(avail) > 0 THEN avail[1].id
                     ELSE prev[u]]

-----------------------------------------------------------------------------
(* The page: handler calls in flight *)

\* the calls in flight
InFlight == BagToSet(ops)

\* a further call may start
FreeSlot == BagCardinality(ops) < MaxOps

AllIdle == ops = EmptyBag

\* call o moves on as call n, or ends
Moved(o, n) == ops' = (ops (-) SetToBag({o})) (+) SetToBag({n})
Ended(o) == ops' = ops (-) SetToBag({o})

\* inserts still to come from the calls in flight
PendingInserts ==
    BagCardinality([o \in {x \in InFlight : x.kind = "book" /\ x.pc = "insert"} |-> ops[o]])

GameOf(gs, uid) == gs[Min({k \in 1..Len(gs) : gs[k].uid = uid})]

\* the row of the table for game g, as rendered from the current state
isBooked(g) == bookedMap[g.uid] # NoId
avail(g) == getAvailablePitches(Pitches, selectedBfvTeam.age_u, g, bookings)
selectedPitch(g) ==
    IF selectedPitchByUid[g.uid] # NoPitch THEN selectedPitchByUid[g.uid]
    ELSE IF Len(avail(g)) > 0 THEN avail(g)[1].id ELSE NoPitch

\* mutant of BookEnabled: the button is not disabled by an empty list
BookEnabledIgnoringAvail(g) ==
    /\ ~isBooked(g)
    /\ busyUid # g.uid
    /\ selectedPitch(g) # NoPitch

\* "direkt genehmigt anlegen" is rendered and not disabled
BookEnabled(g) ==
    /\ ~isBooked(g)
    /\ busyUid # g.uid
    /\ Len(avail(g)) # 0
    /\ selectedPitch(g) # NoPitch

\* "Platz gebucht, zurück nehmen" is rendered and not disabled
UndoEnabled(g) == isBooked(g) /\ busyUid # g.uid

\* setBookings, setBookedMap, setBookedPitchByUid of loadBookingsForRange
Scanned(list) ==
    /\ bookings' = list
    /\ scanFresh' = TRUE

Init ==
    /\ store \in InitStores
    /\ nextId = 1
    /\ games = <<>>
    /\ range = NoRange
    /\ bookings = <<>>
    /\ bookedMap = EmptyIdMap
    /\ bookedPitchByUid = EmptyPitchMap
    /\ selectedPitchByUid = EmptyPitchMap
    /\ error = NoError
    /\ busyUid = NoText
    /\ loadingGames = FALSE
    /\ homeOnly = TRUE
    /\ ops = EmptyBag
    /\ scanFresh = FALSE
    /\ fn = [pc |-> "off"]

-----------------------------------------------------------------------------
(* loadGames *)

\* loadGames is called (load effect or "Aktualisieren"): up to the fetch
LoadStart ==
    /\ FreeSlot
    /\ ~loadingGames
    /\ loadingGames' = TRUE
    /\ error' = NoError
    /\ ops' = ops (+) SetToBag({[kind |-> "load", pc |-> "fetch", homeOnly |-> homeOnly]})
    /\ UNCHANGED << store, nextId, games, range, bookings, bookedMap, bookedPitchByUid,
                    selectedPitchByUid, busyUid, scanFresh, fn, homeOnly >>

\* mutant of LoadFetchFail: the games shown before stay
LoadFetchFailKeepsGames ==
    \E o \in InFlight :
        /\ o.kind = "load" /\ o.pc = "fetch"
        /\ error' = "ICS fetch failed"
        /\ loadingGames' = FALSE
        /\ Ended(o)
        /\ UNCHANGED << store, nextId, games, range, bookings, bookedMap, bookedPitchByUid,
                        selectedPitchByUid, busyUid, scanFresh, fn, homeOnly >>

\* the team has no feed URL, the fetch fails or answers with a non-success
\* status: catch and finally
LoadFetchFail ==
    \E o \in InFlight :
        /\ o.kind = "load" /\ o.pc = "fetch"
        /\ games' = <<>>
        /\ error' = "ICS fetch failed"
        /\ loadingGames' = FALSE
        /\ Ended(o)
        /\ UNCHANGED << store, nextId, range, bookings, bookedMap, bookedPitchByUid,
                        selectedPitchByUid, busyUid, scanFresh, fn, homeOnly >>

\* the feed arrives: parse, classify, filter, setRange, up to the store query
LoadFetchOk ==
    \E o \in InFlight :
        /\ o.kind = "load" /\ o.pc = "fetch"
        /\ LET filtered == HomeOnlyFilter(o.homeOnly, FeedClassified)
               r == RangeOf(filtered)
           IN  /\ range' = r
               /\ Moved(o, [kind |-> "load", pc |-> "query", filtered |-> filtered, range |-> r])
        /\ UNCHANGED << store, nextId, games, bookings, bookedMap, bookedPitchByUid,
                        selectedPitchByUid, error, busyUid, loadingGames, scanFresh, fn, homeOnly >>

\* the store query of loadBookingsForRange fails: catch and finally
LoadQueryFail ==
    \E o \in InFlight :
        /\ o.kind = "load" /\ o.pc = "query"
        /\ games' = <<>>
        /\ error' = "query failed"
        /\ loadingGames' = FALSE
        /\ Ended(o)
        /\ UNCHANGED << store, nextId, range, bookings, bookedMap, bookedPitchByUid,
                        selectedPitchByUid, busyUid, scanFresh, fn, homeOnly >>

\* the store answers: maps, default pitches, setGames, finally
LoadQueryOk ==
    \E o \in InFlight :
        /\ o.kind = "load" /\ o.pc = "query"
        /\ LET list == RangeQuery(store, o.range.start, o.range.end)
               maps == ScanMaps(list)
           IN  /\ Scanned(list)
               /\ bookedMap' = maps.uidToBookingId
               /\ bookedPitchByUid' = maps.uidToPitchId
               /\ selectedPitchByUid' =
                     DefaultsMerged(selectedPitchByUid, o.filtered, list, maps.uidToPitchId)
               /\ games' = o.filtered
        /\ loadingGames' = FALSE
        /\ Ended(o)
        /\ UNCHANGED << store, nextId, range, error, busyUid, fn, homeOnly >>

-----------------------------------------------------------------------------
(* the pitch select of a row *)

\* the option the select of game g shows: its value if that is one of the options,
\* the first option otherwise
ShownOption(g) ==
    IF \E n \in 1..Len(avail(g)) : avail(g)[n].id = selectedPitch(g)
    THEN selectedPitch(g) ELSE avail(g)[1].id

\* onChange of the select of row k: another option p is chosen
SelectPitch(k, p) ==
    /\ k \in 1..Len(games)
    /\ ~isBooked(games[k])
    /\ \E n \in 1..Len(avail(games[k])) : avail(games[k])[n].id = p
    /\ ShownOption(games[k]) # p
    /\ selectedPitchByUid' = [selectedPitchByUid EXCEPT ![games[k].uid] = p]
    /\ UNCHANGED << store, nextId, games, range, bookings, bookedMap, bookedPitchByUid,
                    error, busyUid, loadingGames, ops, scanFresh, fn, homeOnly >>

-----------------------------------------------------------------------------
(* bookApproved *)

\* the book button of row k is pressed: up to the insert
BookStart(k) ==
    /\ FreeSlot
    /\ k \in 1..Len(games)
    /\ BookEnabled(games[k])
    /\ (nextId - 1) + PendingInserts < MaxInserts
    /\ busyUid' = games[k].uid
    /\ error' = NoError
    /\ ops' = ops (+) SetToBag({[kind |-> "book", pc |-> "insert", game |-> games[k],
                                  pitchId |-> selectedPitch(games[k]), range |-> range]})
    /\ UNCHANGED << store, nextId, games, range, bookings, bookedMap, bookedPitchByUid,
                    selectedPitchByUid, loadingGames, scanFresh, fn, homeOnly >>

\* mutant of BookInsertRejected: the busy marker stays and the maps take the
\* pitch of the attempt
BookInsertRejectedStaysBusy ==
    \E o \in InFlight :
        /\ o.kind = "book" /\ o.pc = "insert"
        /\ LET g == o.game
               row == [id |-> nextId, start_at |-> g.start, end_at |-> g.end,
                       status |-> "APPROVED", note |-> NoteOf(g.summary, g.uid),
                       pitch_id |-> o.pitchId]
           IN  StoreRejects(store, row)
        /\ error' = "insert rejected"
        /\ bookedPitchByUid' = [bookedPitchByUid EXCEPT ![o.game.uid] = o.pitchId]
        /\ Ended(o)
        /\ UNCHANGED << store, nextId, games, range, bookings, bookedMap, busyUid,
                        selectedPitchByUid, loadingGames, scanFresh, fn, homeOnly >>

\* the store refuses the insert: catch and finally
BookInsertRejected ==
    \E o \in InFlight :
        /\ o.kind = "book" /\ o.pc = "insert"
        /\ LET g == o.game
               row == [id |-> nextId, start_at |-> g.start, end_at |-> g.end,
                       status |-> "APPROVED", note |-> NoteOf(g.summary, g.uid),
                       pitch_id |-> o.pitchId]
           IN  StoreRejects(store, row)
        /\ error' = "insert rejected"
        /\ busyUid' = NoText
        /\ Ended(o)
        /\ UNCHANGED << store, nextId, games, range, bookings, bookedMap, bookedPitchByUid,
                        selectedPitchByUid, loadingGames, scanFresh, fn, homeOnly >>

\* the store accepts the insert: up to the reload of the maps
BookInsertOk ==
    \E o \in InFlight :
        /\ o.kind = "book" /\ o.pc = "insert"
        /\ LET g == o.game
               row == [id |-> nextId, start_at |-> g.start, end_at |-> g.end,
                       status |-> "APPROVED", note |-> NoteOf(g.summary, g.uid),
                       pitch_id |-> o.pitchId]
           IN  /\ ~StoreRejects(store, row)
               /\ store' = Append(store, row)
        /\ nextId' = nextId + 1
        /\ scanFresh' = FALSE
        /\ Moved(o, [o EXCEPT !.pc = "reload"] @@ [insId |-> nextId])
        /\ UNCHANGED << games, range, bookings, bookedMap, bookedPitchByUid,
                        selectedPitchByUid, error, busyUid, loadingGames, fn, homeOnly >>

\* the reload after the insert fails: catch and finally
BookReloadFail ==
    \E o \in InFlight :
        /\ o.kind = "book" /\ o.pc = "reload"
        /\ error' = "query failed"
        /\ busyUid' = NoText
        /\ Ended(o)
        /\ UNCHANGED << store, nextId, games, range, bookings, bookedMap, bookedPitchByUid,
                        selectedPitchByUid, loadingGames, scanFresh, fn, homeOnly >>

\* the reload answers: maps, then the pitch and the booking of this fixture, finally
BookReloadOk ==
    \E o \in InFlight :
        /\ o.kind = "book" /\ o.pc = "reload"
        /\ LET uid == o.game.uid
               list == RangeQuery(store, o.range.start, o.range.end)
               maps == ScanMaps(list)
           IN  /\ Scanned(list)
               /\ selectedPitchByUid' = [selectedPitchByUid EXCEPT ![uid] = o.pitchId]
               /\ bookedMap' = [maps.uidToBookingId EXCEPT ![uid] = o.insId]
               /\ bookedPitchByUid' = [maps.uidToPitchId EXCEPT ![uid] = o.pitchId]
        /\ busyUid' = NoText
        /\ Ended(o)
        /\ UNCHANGED << store, nextId, games, range, error, loadingGames, fn, homeOnly >>

-----------------------------------------------------------------------------
(* undoBooking *)

\* the undo button of row k is pressed: up to the delete
UndoStart(k) ==
    /\ FreeSlot
    /\ k \in 1..Len(games)
    /\ UndoEnabled(games[k])
    /\ bookedMap[games[k].uid] # NoId
    /\ busyUid' = games[k].uid
    /\ error' = NoError
    /\ ops' = ops (+) SetToBag({[kind |-> "undo", pc |-> "delete", gameUid |-> games[k].uid,
                                  bookingId |-> bookedMap[games[k].uid], range |-> range,
                                  games |-> games]})
    /\ UNCHANGED << store, nextId, games, range, bookings, bookedMap, bookedPitchByUid,
                    selectedPitchByUid, loadingGames, scanFresh, fn, homeOnly >>

\* the delete fails: catch and finally
UndoDeleteFail ==
    \E o \in InFlight :
        /\ o.kind = "undo" /\ o.pc = "delete"
        /\ error' = "delete failed"
        /\ busyUid' = NoText
        /\ Ended(o)
        /\ UNCHANGED << store, nextId, games, range, bookings, bookedMap, bookedPitchByUid,
                        selectedPitchByUid, loadingGames, scanFresh, fn, homeOnly >>

\* the delete is done (also when no row has that id): up to the reload
UndoDeleteOk ==
    \E o \in InFlight :
        /\ o.kind = "undo" /\ o.pc = "delete"
        /\ store' = StoreDelete(store, o.bookingId)
        /\ scanFresh' = (scanFresh /\ store' = store)
        /\ Moved(o, [o EXCEPT !.pc = "reload"] @@ [deleted |-> Len(store) - Len(store')])
        /\ UNCHANGED << nextId, games, range, bookings, bookedMap, bookedPitchByUid,
                        selectedPitchByUid, error, busyUid, loadingGames, fn, homeOnly >>

\* the reload after the delete fails: catch and finally
UndoReloadFail ==
    \E o \in InFlight :
        /\ o.kind = "undo" /\ o.pc = "reload"
        /\ error' = "query failed"
        /\ busyUid' = NoText
        /\ Ended(o)
        /\ UNCHANGED << store, nextId, games, range, bookings, bookedMap, bookedPitchByUid,
                        selectedPitchByUid, loadingGames, scanFresh, fn, homeOnly >>

\* the reload answers: maps, a default pitch, the fixture leaves the maps, finally
UndoReloadOk ==
    \E o \in InFlight :
        /\ o.kind = "undo" /\ o.pc = "reload"
        /\ LET uid == o.gameUid
               list == RangeQuery(store, o.range.start, o.range.end)
               maps == ScanMaps(list)
               av == getAvailablePitches(Pitches, selectedBfvTeam.age_u, GameOf(o.games, uid), list)
           IN  /\ Scanned(list)
               /\ selectedPitchByUid' =
                     [selectedPitchByUid EXCEPT ![uid] = IF Len(av) > 0 THEN av[1].id ELSE NoPitch]
               /\ bookedMap' = [maps.uidToBookingId EXCEPT ![uid] = NoId]
               /\ bookedPitchByUid' = [maps.uidToPitchId EXCEPT ![uid] = NoPitch]
        /\ busyUid' = NoText
        /\ Ended(o)
        /\ UNCHANGED << store, nextId, games, range, error, loadingGames, fn, homeOnly >>

-----------------------------------------------------------------------------
(* The page as a whole *)

Start ==
    \/ LoadStart
    \/ \E k \in 1..Len(FeedGames) : BookStart(k)
    \/ \E k \in 1..Len(FeedGames) : UndoStart(k)

\* the steps in which the store and the network answer
StepOk ==
    \/ LoadFetchOk
    \/ LoadQueryOk
    \/ BookInsertRejected
    \/ BookInsertOk
    \/ BookReloadOk
    \/ UndoDeleteOk
    \/ UndoReloadOk
    \/ \E k \in 1..Len(FeedGames), p \in {"p1", "p2"} : SelectPitch(k, p)

\* the steps in which the fetch, a query or a delete fails
StepFail ==
    \/ LoadFetchFail
    \/ LoadQueryFail
    \/ BookReloadFail
    \/ UndoDeleteFail
    \/ UndoReloadFail

Next == Start \/ StepOk \/ StepFail

Spec == Init /\ [][Next]_vars

\* calls in flight together, the store and the network always answer
NextOk == Start \/ StepOk

SpecOk == Init /\ [][NextOk]_vars

\* one handler call at a time: a call starts only when none is in flight
NextSeq == (AllIdle /\ Start) \/ StepOk \/ StepFail

SpecSeq == Init /\ [][NextSeq]_vars

\* one handler call at a time, and the store and the network always answer
NextSeqOk == (AllIdle /\ Start) \/ StepOk

SpecSeqOk == Init /\ [][NextSeqOk]_vars

-----------------------------------------------------------------------------
(* Properties of the page *)

\* the rows of the store whose note carries the tag of fixture uid
TaggedRows(uid) == {k \in 1..Len(store) : findBfvUid(store[k].note) = uid}

\* the calls booking fixture uid that have inserted and not yet returned
InsertedCalls(uid) ==
    {o \in InFlight : o.kind = "book" /\ o.pc = "reload" /\ o.game.uid = uid}

\* C1: after any interleaving of book, undo and reload the store holds at most
\* one booking tagged with a fixture id, and two book calls for one fixture that
\* are in flight together never both insert.
C1_AtMostOneBookingPerFixture ==
    \A u \in Uids :
        /\ Cardinality(TaggedRows(u)) <= 1
        /\ Cardinality(InsertedCalls(u)) <= 1

\* C1, the concurrent half alone: two book calls for one fixture that are in
\* flight together never both insert.
C1_NoConcurrentDoubleInsert ==
    \A u \in Uids : Cardinality(InsertedCalls(u)) <= 1

\* C2: with one call at a time, book after a successful book of the same
\* fixture (also after a reload) never leaves two bookings tagged with it.
C2_SequentialBookIdempotent ==
    \A u \in Uids : ~(\E j, k \in TaggedRows(u) : j # k)

\* what the latest loadBookingsForRange mapped uid to (bookings is its list)
ScannedId(uid) == ScanMaps(bookings).uidToBookingId[uid]

\* C3: a scan of the feed's range made after the last change of the store maps
\* every fixture that has a tagged booking to that booking's id, the fixture
\* that ends last included, and every fixture without one to nothing.
C3_ScanLocatesBooking ==
    scanFresh =>
        \A u \in Uids :
            IF TaggedRows(u) = {} THEN ScannedId(u) = NoId
            ELSE \E k \in TaggedRows(u) : ScannedId(u) = store[k].id

\* C4: once the delete of undo(F) has been done, no booking tagged F is left in
\* the store; a delete that found no row changed nothing and set no error.
C4_UndoDeletesTheBooking ==
    \A o \in InFlight :
        (o.kind = "undo" /\ o.pc = "reload") =>
            /\ TaggedRows(o.gameUid) = {}
            /\ (o.deleted = 0 => error = NoError)

\* the first booking of list whose note carries the tag of uid
FirstMatchId(list, uid) ==
    LET ks == {k \in 1..Len(list) : findBfvUid(list[k].note) = uid}
    IN  IF ks = {} THEN NoId ELSE list[Min(ks)].id

\* the last booking of list whose note carries the tag of uid
LastMatchId(list, uid) ==
    LET ks == {k \in 1..Len(list) : findBfvUid(list[k].note) = uid}
    IN  IF ks = {} THEN NoId ELSE list[Max(ks)].id

\* the bookings of the scanned list that carry the tag of uid
Matches(list, uid) == {k \in 1..Len(list) : findBfvUid(list[k].note) = uid}

\* C6 as claimed: when several bookings of the scanned list carry the tag of one
\* fixture, the scan reports the first of them in list order.
C6_ScanReportsFirstMatch ==
    \A u \in Uids : ScannedId(u) = FirstMatchId(bookings, u)

\* C6 as amended: the scan never fails, and the booking it reports for a
\* fixture is the last booking of the list that carries the fixture's tag.
C6_ScanReportsLastMatch ==
    \A u \in Uids : ScannedId(u) = LastMatchId(bookings, u)

\* C6 witness: a scanned list in which two bookings carry the tag of one fixture
C6_WitnessTwoMatches ==
    \E u \in Uids : Cardinality(Matches(bookings, u)) >= 2

\* C7: after a scan, the loaded list holds every stored booking whose interval
\* intersects the range, and so every blocking booking that overlaps the
\* window of a fixture of the feed.
C7_ScanLoadsIntersecting ==
    scanFresh =>
        \A k \in 1..Len(store) :
            LET b == store[k]
                loaded == \E n \in 1..Len(bookings) : bookings[n].id = b.id
            IN  /\ overlaps(range.start, range.end, b.start_at, b.end_at) => loaded
                /\ \A n \in 1..Len(FeedGames) :
                      ( /\ StatusUpper(b.status) \in BLOCKING_STATUSES
                        /\ overlaps(FeedGames[n].start, FeedGames[n].end,
                                    b.start_at, b.end_at) ) => loaded

-----------------------------------------------------------------------------
(* The fixture tag on its own: bookApproved writes the note, findBfvUid reads it *)

\* the page at rest, for the specifications of the pure functions
PageAtRest ==
    /\ store = <<>>
    /\ nextId = 1
    /\ games = <<>>
    /\ range = NoRange
    /\ bookings = <<>>
    /\ bookedMap = EmptyIdMap
    /\ bookedPitchByUid = EmptyPitchMap
    /\ selectedPitchByUid = EmptyPitchMap
    /\ error = NoError
    /\ busyUid = NoText
    /\ loadingGames = FALSE
    /\ homeOnly = TRUE
    /\ ops = EmptyBag
    /\ scanFresh = FALSE

TagOpenLower == <<"[","b","f","v","_","u","i","d",":">>

\* what summaries are put together from
SummaryPieces == { <<"A">>, <<"x">>, <<"[">>, <<"]">>, TagOpen, TagOpenLower }

RECURSIVE PieceTexts(_)
PieceTexts(n) ==
    IF n = 0 THEN { <<>> }
    ELSE LET shorter == PieceTexts(n - 1)
         IN  shorter \cup {t \o q : t \in shorter, q \in SummaryPieces}

\* summaries as parseIcs emits them: not empty
TagSummaries == PieceTexts(MaxPieces) \ { <<>> }

\* fixture ids: not empty, no "]"
TagUids == { UidF1, <<"x">>, <<"[","x">>, TagOpen \o <<"x">>, <<"A"," ","b">> }

InitTag ==
    /\ PageAtRest
    /\ \E sm \in TagSummaries, u \in TagUids :
          fn = [pc |-> "game", summary |-> sm, uid |-> u]

\* bookApproved builds the note of the booking
TagWrite ==
    /\ fn.pc = "game"
    /\ fn' = [pc |-> "note", summary |-> fn.summary, uid |-> fn.uid,
              note |-> NoteOf(fn.summary, fn.uid)]
    /\ UNCHANGED pageVars

\* loadBookingsForRange reads the uid back from the note
TagFind ==
    /\ fn.pc = "note"
    /\ fn' = [pc |-> "found", summary |-> fn.summary, uid |-> fn.uid,
              note |-> fn.note, found |-> findBfvUid(fn.note)]
    /\ UNCHANGED pageVars

NextTag == TagWrite \/ TagFind

SpecTag == InitTag /\ [][NextTag]_vars

\* C5: the id findBfvUid extracts from the note that book writes is the id of
\* the fixture, for every fixture id without "]" and every summary.
C5_TagRoundTrips ==
    fn.pc = "found" => fn.found = fn.uid

-----------------------------------------------------------------------------
(* The calendar parser on its own: generated feeds *)

LineBeginCalendar == <<"B","E","G","I","N",":","V","C","A","L","E","N","D","A","R">>
LineEndCalendar == <<"E","N","D",":","V","C","A","L","E","N","D","A","R">>
LineSummary == <<"S","U","M","M","A","R","Y",":","F","C"," ","A"," ","-"," ","S","V"," ","B",","," ","L","i","g","a">>
LineSummaryBlank == <<"S","U","M","M","A","R","Y",":"," "," ">>
LineLocation == <<"L","O","C","A","T","I","O","N",":","P","l","a","t","z"," ","1">>
LineUnknown == <<"X","-","F","O","O",":","b","a","r">>
LineDtStart == <<"D","T","S","T","A","R","T",":","2","0","2","6","0","2","2","2","T","1","4","0","0","0","0","Z">>
LineDtStartBad == <<"D","T","S","T","A","R","T",":","2","0","2","6","-","0","2","-","2","2">>
LineDtEnd == <<"D","T","E","N","D",":","2","0","2","6","0","2","2","2","T","1","6","0","0","0","0","Z">>
LineStraySummary == <<"S","U","M","M","A","R","Y",":","s","t","r","a","y">>

\* the UID line of the n-th record of a feed
UidValue(n) == <<"u", <<"1","2","3","4","5">>[n]>>
LineUid(n) == KwUid \o UidValue(n)

\* what a generated record holds: all required fields, or all but one
RecordKinds == {"ok", "noUid", "emptyUid", "noSummary", "blankSummary",
                "noStart", "badStart", "noEnd", "extras"}

\* the kinds whose record holds identifier, summary, start and end
CompleteKinds == {"ok", "extras"}

\* the lines of the n-th record
RecordLines(kind, n) ==
    <<KwBegin>>
    \o (CASE kind = "noUid" -> <<>> [] kind = "emptyUid" -> <<KwUid>>
          [] OTHER -> <<LineUid(n)>>)
    \o (CASE kind = "noSummary" -> <<>> [] kind = "blankSummary" -> <<LineSummaryBlank>>
          [] OTHER -> <<LineSummary>>)
    \o (IF kind = "extras" THEN <<LineLocation, LineUnknown>> ELSE <<>>)
    \o (CASE kind = "noStart" -> <<>> [] kind = "badStart" -> <<LineDtStartBad>>
          [] OTHER -> <<LineDtStart>>)
    \o (IF kind = "noEnd" THEN <<>> ELSE <<LineDtEnd>>)
    \o <<KwEnd>>

\* lines that may stand between the records, outside any record
StrayKinds == {"none", "end", "field"}
StrayLines(stray) ==
    CASE stray = "end" -> <<KwEnd>> [] stray = "field" -> <<LineStraySummary>>
      [] OTHER -> <<>>

RECURSIVE FeedLinesFrom(_, _, _)
FeedLinesFrom(kinds, stray, n) ==
    IF n > Len(kinds) THEN <<>>
    ELSE RecordLines(kinds[n], n) \o StrayLines(stray) \o FeedLinesFrom(kinds, stray, n + 1)

FeedLines(kinds, stray) ==
    <<LineBeginCalendar>> \o FeedLinesFrom(kinds, stray, 1) \o <<LineEndCalendar>>

\* the text of the feed: every line followed by the line break eol
RECURSIVE JoinLines(_, _)
JoinLines(lines, eol) ==
    IF lines = <<>> THEN <<>> ELSE Head(lines) \o eol \o JoinLines(Tail(lines), eol)

LineBreaks == { <<"\n">>, <<"\r","\n">> }

RECURSIVE KindSeqs(_)
KindSeqs(n) ==
    IF n = 0 THEN { <<>> }
    ELSE LET shorter == KindSeqs(n - 1)
         IN  shorter \cup {Append(q, kind) : q \in {x \in shorter : Len(x) = n - 1},
                                             kind \in RecordKinds}

InitIcs ==
    /\ PageAtRest
    /\ \E kinds \in KindSeqs(MaxRecords), stray \in StrayKinds, eol \in LineBreaks :
          fn = [pc |-> "text", kinds |-> kinds,
                icsText |-> JoinLines(FeedLines(kinds, stray), eol)]

\* const lines = unfoldIcsLines(icsText), and the locals of parseIcs
IcsUnfold ==
    /\ fn.pc = "text"
    /\ fn' = [pc |-> "loop", kinds |-> fn.kinds, lines |-> unfoldIcsLines(fn.icsText),
              k |-> 1, st |-> ParserStart]
    /\ UNCHANGED pageVars

IcsTurn == [fn EXCEPT !.k = @ + 1, !.st = ParseLine(fn.st, fn.lines[fn.k])]

\* the loop meets BEGIN:VEVENT
IcsBegin ==
    /\ fn.pc = "loop" /\ fn.k <= Len(fn.lines)
    /\ StartsWith(fn.lines[fn.k], KwBegin)
    /\ fn' = IcsTurn
    /\ UNCHANGED pageVars

\* the loop meets END:VEVENT
IcsEnd ==
    /\ fn.pc = "loop" /\ fn.k <= Len(fn.lines)
    /\ StartsWith(fn.lines[fn.k], KwEnd)
    /\ fn' = IcsTurn
    /\ UNCHANGED pageVars

\* the loop meets another line outside a record
IcsOutside ==
    /\ fn.pc = "loop" /\ fn.k <= Len(fn.lines)
    /\ ~StartsWith(fn.lines[fn.k], KwBegin) /\ ~StartsWith(fn.lines[fn.k], KwEnd)
    /\ ~fn.st.inEvent
    /\ fn' = IcsTurn
    /\ UNCHANGED pageVars

\* the loop meets another line inside a record
IcsField ==
    /\ fn.pc = "loop" /\ fn.k <= Len(fn.lines)
    /\ ~StartsWith(fn.lines[fn.k], KwBegin) /\ ~StartsWith(fn.lines[fn.k], KwEnd)
    /\ fn.st.inEvent
    /\ fn' = IcsTurn
    /\ UNCHANGED pageVars

\* return games
IcsReturn ==
    /\ fn.pc = "loop" /\ fn.k > Len(fn.lines)
    /\ fn' = [pc |-> "parsed", kinds |-> fn.kinds, st |-> fn.st, games |-> fn.st.games]
    /\ UNCHANGED pageVars

NextIcs == IcsUnfold \/ IcsBegin \/ IcsEnd \/ IcsOutside \/ IcsField \/ IcsReturn

SpecIcs == InitIcs /\ [][NextIcs]_vars

\* the fixture a complete n-th record of a generated feed stands for
ExpectedGame(kind, n) ==
    [uid |-> UidValue(n),
     summary |-> Slice(LineSummary, 8),
     start |-> <<"utc", 2026, 1, 22, 14, 0, 0>>,
     end |-> <<"utc", 2026, 1, 22, 16, 0, 0>>,
     location |-> IF kind = "extras" THEN Slice(LineLocation, 9) ELSE <<>>,
     isHome |-> "null"]

\* the complete records of the feed, in feed order
RECURSIVE ExpectedFrom(_, _)
ExpectedFrom(kinds, n) ==
    IF n > Len(kinds) THEN <<>>
    ELSE (IF kinds[n] \in CompleteKinds THEN <<ExpectedGame(kinds[n], n)>> ELSE <<>>)
         \o ExpectedFrom(kinds, n + 1)

\* the fixtures emitted so far
EmittedGames == IF fn.pc \in {"loop", "parsed"} THEN fn.st.games ELSE <<>>

\* C8: every fixture parseIcs emits has a non-empty identifier and summary and a
\* start and an end; a record that lacks one of the four yields no fixture, and
\* the fixtures come in feed order.
C8_RequiredFieldsFilter ==
    /\ \A n \in 1..Len(EmittedGames) :
          /\ EmittedGames[n].uid # <<>>
          /\ EmittedGames[n].summary # <<>>
          /\ EmittedGames[n].start # NoDate
          /\ EmittedGames[n].end # NoDate
    /\ fn.pc = "parsed" => fn.games = ExpectedFrom(fn.kinds, 1)

\* C8 witness: a parsed feed in which a record without identifier was dropped
\* and a complete record after it was emitted
C8_WitnessDroppedAndKept ==
    /\ fn.pc = "parsed"
    /\ Len(fn.kinds) = 2 /\ fn.kinds[1] = "noUid" /\ fn.kinds[2] = "ok"
    /\ Len(fn.games) = 1 /\ fn.games[1].uid = UidValue(2)

-----------------------------------------------------------------------------
(* The calendar parser on its own: one feed written in two ways *)

\* the feed of one record that holds all five fields
BaseLines == FeedLines(<<"extras">>, "none")

\* line n cut after its first pos characters; the rest follows on a
\* continuation line that starts with the white space ws
Rewrapped(lines, n, pos, ws) ==
    SubSeq(lines, 1, n - 1)
    \o << SubSeq(lines[n], 1, pos), <<ws>> \o SubSeq(lines[n], pos + 1, Len(lines[n])) >>
    \o SubSeq(lines, n + 1, Len(lines))

FieldKeywords == { <<"U","I","D">>, <<"S","U","M","M","A","R","Y">>, <<"L","O","C","A","T","I","O","N">>, <<"D","T","S","T","A","R","T">>, <<"D","T","E","N","D">> }

ParamText == <<";","X","-","P","=","1">>

\* KEYWORD:value written as KEYWORD;params:value on the lines of keyword kw
WithParams(lines, kw) ==
    [n \in 1..Len(lines) |->
        IF StartsWith(lines[n], kw \o <<":">>)
        THEN kw \o ParamText \o Slice(lines[n], Len(kw))
        ELSE lines[n]]

InitIcsVariant ==
    /\ PageAtRest
    /\ \/ \E n \in 1..Len(BaseLines), pos \in 0..Max({Len(BaseLines[k]) : k \in 1..Len(BaseLines)}),
            ws \in {" ", "\t"}, eol \in LineBreaks :
              /\ pos <= Len(BaseLines[n])
              /\ fn = [pc |-> "rewrap", lines |-> BaseLines, n |-> n, pos |-> pos,
                       ws |-> ws, eol |-> eol]
       \/ \E kw \in FieldKeywords, eol \in LineBreaks :
              fn = [pc |-> "params", lines |-> BaseLines, kw |-> kw, eol |-> eol]

\* the feed is written once as it is and once with one line re-wrapped
IcsRewrap ==
    /\ fn.pc = "rewrap"
    /\ fn' = [pc |-> "texts", how |-> "rewrap", n |-> fn.n, pos |-> fn.pos,
              icsText |-> JoinLines(fn.lines, fn.eol),
              variantText |-> JoinLines(Rewrapped(fn.lines, fn.n, fn.pos, fn.ws), fn.eol)]
    /\ UNCHANGED pageVars

\* the feed is written once as it is and once with parameters on one field
IcsAddParams ==
    /\ fn.pc = "params"
    /\ fn' = [pc |-> "texts", how |-> "params", kw |-> fn.kw,
              icsText |-> JoinLines(fn.lines, fn.eol),
              variantText |-> JoinLines(WithParams(fn.lines, fn.kw), fn.eol)]
    /\ UNCHANGED pageVars

\* parseIcs on both texts
IcsParseBoth ==
    /\ fn.pc = "texts"
    /\ fn' = [fn EXCEPT !.pc = "parsed"] @@
             [games |-> parseIcs(fn.icsText), variantGames |-> parseIcs(fn.variantText)]
    /\ UNCHANGED pageVars

NextIcsVariant == IcsRewrap \/ IcsAddParams \/ IcsParseBoth

SpecIcsVariant == InitIcsVariant /\ [][NextIcsVariant]_vars

\* C9: a feed in which one line is split at any position into a line and a
\* continuation line parses to the same fixtures as the unsplit feed.
C9_UnfoldingInvariant ==
    (fn.pc = "parsed" /\ fn.how = "rewrap") => fn.variantGames = fn.games

\* C10: a feed in which a recognised field is written KEYWORD;params:value parses
\* to the same fixtures as with KEYWORD:value, for each of the five fields.
C10_ParametersStripped ==
    (fn.pc = "parsed" /\ fn.how = "params") => fn.variantGames = fn.games

-----------------------------------------------------------------------------
(* The calendar parser on its own: records with malformed times *)

\* values of the form YYYYMMDDTHHMMSS with an optional Z
DtWellFormed == { <<"2","0","2","6","0","2","2","2","T","1","4","0","0","0","0","Z">>,
                  <<"2","0","2","6","0","2","2","2","T","1","4","0","0","0","0">> }

\* values not of that form: date with dashes, date only, lower-case z, blank
\* instead of T, seconds missing, a character after the Z, a colon-separated
\* time, nothing
DtMalformed == { <<"2","0","2","6","-","0","2","-","2","2","T","1","4",":","0","0",":","0","0","Z">>,
                 <<"2","0","2","6","0","2","2","2">>,
                 <<"2","0","2","6","0","2","2","2","T","1","4","0","0","0","0","z">>,
                 <<"2","0","2","6","0","2","2","2"," ","1","4","0","0","0","0","Z">>,
                 <<"2","0","2","6","0","2","2","2","T","1","4","0","0">>,
                 <<"2","0","2","6","0","2","2","2","T","1","4","0","0","0","0","Z","Z">>,
                 <<"2","0","2","6","0","2","2","2","T","1","4",":","0","0",":","0","0">>,
                 <<>> }

\* the record in the middle of the feed: one of its two times is written with
\* value, alone, after a well-formed line of the same field, or before one
DtCases == [field : {"start", "end"}, value : DtWellFormed \cup DtMalformed,
            order : {"only", "afterGood", "beforeGood"}]

DtLines(c, field, kw, good) ==
    IF c.field # field THEN <<good>>
    ELSE CASE c.order = "only" -> << kw \o <<":">> \o c.value >>
           [] c.order = "afterGood" -> << good, kw \o <<":">> \o c.value >>
           [] OTHER -> << kw \o <<":">> \o c.value, good >>

DtFeedLines(c) ==
    <<LineBeginCalendar>>
    \o RecordLines("ok", 1)
    \o <<KwBegin, LineUid(2), LineSummary>>
    \o DtLines(c, "start", KwDtStart, LineDtStart)
    \o DtLines(c, "end", KwDtEnd, LineDtEnd)
    \o <<KwEnd>>
    \o RecordLines("ok", 3)
    \o <<LineEndCalendar>>

InitDt ==
    /\ PageAtRest
    /\ \E c \in DtCases, eol \in LineBreaks :
          fn = [pc |-> "text", kinds |-> <<c>>, icsText |-> JoinLines(DtFeedLines(c), eol)]

SpecDt == InitDt /\ [][NextIcs]_vars

\* the value the field of the middle record holds at END:VEVENT is malformed
LastValueMalformed(c) == c.order # "beforeGood" /\ c.value \in DtMalformed

\* C11: parseDt returns null for a value that is not YYYYMMDDTHHMMSS with an
\* optional Z; a record whose last DTSTART or DTEND is such a value yields no
\* fixture, and the records before and after it are emitted all the same.
C11_MalformedTimeDropsRecord ==
    /\ \A v \in DtMalformed : parseDt(v) = NoDate
    /\ fn.pc = "parsed" =>
          IF LastValueMalformed(fn.kinds[1])
          THEN fn.games = <<ExpectedGame("ok", 1), ExpectedGame("ok", 3)>>
          ELSE /\ Len(fn.games) = 3
               /\ \A n \in 1..3 : fn.games[n].uid = UidValue(n)

\* C11 witness: a parsed feed whose middle record ends with a malformed time
\* after a well-formed one, and of which the two other records were emitted
C11_WitnessDroppedRecord ==
    /\ fn.pc = "parsed"
    /\ fn.kinds[1].order = "afterGood" /\ fn.kinds[1].value \in DtMalformed
    /\ Len(fn.games) = 2 /\ fn.games[2].uid = UidValue(3)

-----------------------------------------------------------------------------
(* The classification on its own: one club, one team, one game *)

ClubNames == { <<"F","C"," ","A","s","c","h","h","e","i","m">>,
               <<"F","C"," ","S","V"," ","e",".","V",".">>,
               <<"F","C"," ","M","u:","n","c","h","e","n">> }

TeamNames == { <<>>,
               <<"U","1","3"," ","A">>,
               <<"A","s","c","h","h","e","i","m"," ","U","1","3"," ","I","I">> }

\* the club on the left
SumLeft == <<"F","C"," ","A","s","c","h","h","e","i","m"," ","-"," ","S","V"," ","B",","," ","L","i","g","a">>
\* the club on the right
SumRight == <<"S","V"," ","B"," ","-"," ","F","C"," ","A","s","c","h","h","e","i","m",","," ","L","i","g","a">>
\* the club on both sides
SumBoth == <<"F","C"," ","A","s","c","h","h","e","i","m"," ","-"," ","F","C"," ","A","s","c","h","h","e","i","m"," ","I","I">>
\* the club on neither side
SumNeither == <<"S","V"," ","B"," ","-"," ","S","V"," ","C">>
\* no separator
SumNoSeparator == <<"S","p","i","e","l","t","a","g"," ","5">>
\* an en-dash with blanks
SumEnDash == <<"S","V"," ","B"," ","--"," ","F","C"," ","A","s","c","h","h","e","i","m">>
\* a hyphen inside a name only
SumHyphenated == <<"S","V"," ","N","e","u","-","A","s","c","h","h","e","i","m">>
\* a hyphen with a blank on one side only
SumHalfSpaced == <<"S","V"," ","B"," ","-","F","C"," ","A","s","c","h","h","e","i","m">>
\* the pair after the first comma
SumCommaFirst == <<"T","u","r","n","i","e","r",","," ","F","C"," ","A","s","c","h","h","e","i","m"," ","-"," ","S","V"," ","B">>
\* nothing on the left
SumNoLeft == <<" ","-"," ","F","C"," ","A","s","c","h","h","e","i","m">>
\* three parts
SumThreeParts == <<"S","V"," ","B"," ","-"," ","S","V"," ","C"," ","-"," ","F","C"," ","A","s","c","h","h","e","i","m">>

Summaries == { SumLeft,
               SumRight,
               SumBoth,
               SumNeither,
               SumNoSeparator,
               SumEnDash,
               SumHyphenated,
               SumHalfSpaced,
               SumCommaFirst,
               SumNoLeft,
               SumThreeParts }

\* g.location || "": no venue, a venue that names the club, another venue
Locations == { <<>>,
               <<"S","p","o","r","t","p","a","r","k"," ","A","s","c","h","h","e","i","m">>,
               <<"P","l","a","t","z"," ","1">> }

InitMatch ==
    /\ PageAtRest
    /\ \E c \in ClubNames, t \in TeamNames, sm \in Summaries, loc \in Locations,
          h \in BOOLEAN :
          fn = [pc |-> "names", clubName |-> c, teamName |-> t, summary |-> sm,
                location |-> loc, homeOnly |-> h]

\* const tokens = buildMatchTokens(clubName, teamName)
MatchTokens ==
    /\ fn.pc = "names"
    /\ fn' = [fn EXCEPT !.pc = "tokens"] @@
             [tokens |-> buildMatchTokens(<<fn.clubName, fn.teamName>>)]
    /\ UNCHANGED pageVars

\* const parts = splitHomeAway(g.summary)
MatchSplit ==
    /\ fn.pc = "tokens"
    /\ fn' = [fn EXCEPT !.pc = "split"] @@ [parts |-> splitHomeAway(fn.summary)]
    /\ UNCHANGED pageVars

\* if (parts): the sides decide
MatchSides ==
    /\ fn.pc = "split"
    /\ fn.parts.ok
    /\ fn' = [fn EXCEPT !.pc = "classified"] @@
             [leftMatch |-> matchSide(fn.tokens, fn.parts.left),
              rightMatch |-> matchSide(fn.tokens, fn.parts.right),
              venueMatch |-> VenueMatch(fn.tokens, fn.location),
              isHome |-> isHomeOf(fn.tokens, fn.summary, fn.location)]
    /\ UNCHANGED pageVars

\* else: the venue decides
MatchVenue ==
    /\ fn.pc = "split"
    /\ ~fn.parts.ok
    /\ fn' = [fn EXCEPT !.pc = "classified"] @@
             [leftMatch |-> FALSE, rightMatch |-> FALSE,
              venueMatch |-> VenueMatch(fn.tokens, fn.location),
              isHome |-> isHomeOf(fn.tokens, fn.summary, fn.location)]
    /\ UNCHANGED pageVars

\* const filtered = homeOnly ? parsed.filter(...) : parsed
MatchFilter ==
    /\ fn.pc = "classified"
    /\ fn' = [fn EXCEPT !.pc = "filtered"] @@
             [filtered |-> HomeOnlyFilter(fn.homeOnly,
                               <<[summary |-> fn.summary, isHome |-> fn.isHome]>>)]
    /\ UNCHANGED pageVars

NextMatch == MatchTokens \/ MatchSplit \/ MatchSides \/ MatchVenue \/ MatchFilter

SpecMatch == InitMatch /\ [][NextMatch]_vars

\* the game has been classified
Classified == fn.pc \in {"classified", "filtered"}

\* C12: when the summary splits into two sides and exactly one of them
\* contains a match token, the game is home if that side is the left one and
\* away if it is the right one.
C12_OneSideDecides ==
    (Classified /\ fn.parts.ok /\ (fn.leftMatch # fn.rightMatch)) =>
        fn.isHome = (IF fn.leftMatch THEN "true" ELSE "false")

\* C12 witness: a game whose right side alone names the club, classified away
C12_WitnessRightOnly ==
    /\ Classified /\ fn.parts.ok
    /\ fn.rightMatch /\ ~fn.leftMatch
    /\ fn.isHome = "false"

C14_BothSidesHome ==
    (Classified /\ fn.parts.ok /\ fn.leftMatch /\ fn.rightMatch) => fn.isHome = "true"

\* C14 witness: a game whose two sides both name the club, kept as a home
\* game by the home-only filter
C14_WitnessBothKept ==
    /\ fn.pc = "filtered" /\ fn.parts.ok
    /\ fn.leftMatch /\ fn.rightMatch
    /\ fn.homeOnly /\ Len(fn.filtered) = 1 /\ fn.filtered[1].isHome = "true"

\* C15: when the summary does not split into two sides, the game is home if
\* the normalised venue contains a match token and unknown otherwise, never
\* away; "Spieltag 5" without a venue match is unknown.
C15_NoSidesVenueDecides ==
    (Classified /\ ~fn.parts.ok) =>
        /\ fn.isHome = (IF fn.venueMatch THEN "true" ELSE "null")
        /\ (fn.summary = SumNoSeparator /\ ~fn.venueMatch) => fn.isHome = "null"

\* C15 witness: "Spieltag 5" at a venue that names the club, classified home
C15_WitnessVenueHome ==
    /\ Classified /\ ~fn.parts.ok
    /\ fn.summary = SumNoSeparator /\ fn.venueMatch
    /\ fn.isHome = "true"

\* the text holds a hyphen or en-dash with white space on both sides
HasSpacedSeparator(t) ==
    \E k \in 2..(Len(t) - 1) :
        t[k] \in {"-", "--"} /\ t[k - 1] \in Whitespace /\ t[k + 1] \in Whitespace

\* C16: splitHomeAway gives two sides only when the text before the first
\* comma holds a hyphen or en-dash with white space on both sides; it gives
\* null when the only hyphens stand inside a name.
C16_SplitNeedsSpacedSeparator ==
    (fn.pc \in {"split", "classified", "filtered"} /\ fn.parts.ok) =>
        HasSpacedSeparator(TeamPart(fn.summary))

\* every word of the normalised name is a stop-word, an age category or
\* shorter than 3 characters
OnlyFilteredWords(name) ==
    LET words == SplitOn(normalizeForMatch(name), " ")
    IN  \A k \in 1..Len(words) :
            words[k] \in STOPWORDS \/ IsAgeCategory(words[k]) \/ Len(words[k]) < 3

\* C17: when club name and team name hold nothing but stop-words, age
\* categories and words shorter than 3 characters, the token set is empty and
\* the game is classified unknown, whatever its summary and venue.
C17_FilteredNamesMatchNothing ==
    (OnlyFilteredWords(fn.clubName) /\ OnlyFilteredWords(fn.teamName)) =>
        /\ fn.pc # "names" => fn.tokens = <<>>
        /\ Classified => fn.isHome = "null"

\* C17 witness: club "FC Muenchen" (written with u-umlaut), team "U13 A", a
\* game with two sides at a venue, classified unknown
C17_WitnessNoTokens ==
    /\ Classified
    /\ OnlyFilteredWords(fn.clubName) /\ OnlyFilteredWords(fn.teamName)
    /\ fn.teamName # <<>> /\ fn.parts.ok /\ fn.location # <<>>
    /\ fn.tokens = <<>> /\ fn.isHome = "null"

\* C20: with the home-only filter on, a game is removed exactly when it is
\* classified away (home and unknown are kept); with the filter off every
\* game is kept.
C20_HomeOnlyRemovesAway ==
    fn.pc = "filtered" =>
        /\ (fn.filtered = <<>>) <=> (fn.homeOnly /\ fn.isHome = "false")
        /\ fn.filtered # <<>> =>
              fn.filtered = <<[summary |-> fn.summary, isHome |-> fn.isHome]>>

\* C20 witness: an unknown game kept with the filter on
C20_WitnessUnknownKept ==
    /\ fn.pc = "filtered" /\ fn.homeOnly
    /\ fn.isHome = "null" /\ Len(fn.filtered) = 1

-----------------------------------------------------------------------------
(* buildMatchTokens on its own: generated club names *)

NameWords == { <<"F","C">>,
               <<"A","s","c","h","h","e","i","m">>,
               <<"a","s","c","h","h","e","i","m">>,
               <<"U","1","3">>,
               <<"u","9">>,
               <<"A","B">>,
               <<"I","I">>,
               <<"J","u","n","i","o","r","e","n">>,
               <<"M","u:","n","c","h","e","n">>,
               <<"G","r","u:","n","-","W","e","i","sz">>,
               <<"e",".","V",".">>,
               <<"U","1","2","3">> }

\* names of up to n words, one blank between two words
RECURSIVE NamesOf(_)
NamesOf(n) ==
    IF n = 0 THEN { <<>> }
    ELSE LET shorter == NamesOf(n - 1)
         IN  shorter \cup {(IF t = <<>> THEN t ELSE t \o <<" ">>) \o w :
                              t \in shorter, w \in NameWords}

TokenTeamNames == { <<>>,
                    <<"A","s","c","h","h","e","i","m"," ","U","1","3"," ","I","I">>,
                    <<"U","9"," ","J","u","n","i","o","r","e","n">> }

InitTokens ==
    /\ PageAtRest
    /\ \E c \in NamesOf(MaxWords), t \in TokenTeamNames :
          fn = [pc |-> "names", clubName |-> c, teamName |-> t]

\* buildMatchTokens(clubName, teamName)
TokensBuild ==
    /\ fn.pc = "names"
    /\ fn' = [fn EXCEPT !.pc = "tokens"] @@
             [tokens |-> buildMatchTokens(<<fn.clubName, fn.teamName>>)]
    /\ UNCHANGED pageVars

NextTokens == TokensBuild

SpecTokens == InitTokens /\ [][NextTokens]_vars

\* C18: the token set holds no token shorter than 3 characters, no "u"
\* followed by one or two digits, no stop-word and no token twice.
C18_TokensAreFiltered ==
    fn.pc = "tokens" =>
        \A k \in 1..Len(fn.tokens) :
            LET w == fn.tokens[k]
            IN  /\ Len(w) >= 3
                /\ ~(w[1] = "u" /\ Len(w) <= 3 /\ \A j \in 2..Len(w) : w[j] \in Digits)
                /\ w \notin STOPWORDS
                /\ \A j \in 1..Len(fn.tokens) : j # k => fn.tokens[j] # w

\* C18 witness: club "FC Aschheim", team "Aschheim U13 II": one token is
\* left of two equal words, a stop-word, an age category and a short word
C18_WitnessOneTokenLeft ==
    /\ fn.pc = "tokens"
    /\ fn.clubName = <<"F","C"," ","A","s","c","h","h","e","i","m">>
    /\ fn.teamName = <<"A","s","c","h","h","e","i","m"," ","U","1","3"," ","I","I">>
    /\ fn.tokens = << <<"a","s","c","h","h","e","i","m">> >>

-----------------------------------------------------------------------------
(* normalizeForMatch on its own: generated texts *)

NormPieces == { <<"M","u:","n","c","h","e","n">>,
                <<"A:">>,
                <<"o:">>,
                <<"O:","l">>,
                <<"S","t","r","a","sz","e">>,
                <<"sz">>,
                <<"e'">>,
                <<"C","a","f","e'">>,
                <<"u","(:)">>,
                <<"u:">>,
                <<" ">>,
                <<"-">> }

RECURSIVE NormTexts(_)
NormTexts(n) ==
    IF n = 0 THEN { <<>> }
    ELSE LET shorter == NormTexts(n - 1)
         IN  shorter \cup {t \o q : t \in shorter, q \in NormPieces}

InitNormalize ==
    /\ PageAtRest
    /\ \E t \in NormTexts(MaxPieces) : fn = [pc |-> "text", text |-> t]

\* normalizeForMatch(s)
NormalizeApply ==
    /\ fn.pc = "text"
    /\ fn' = [pc |-> "normalized", text |-> fn.text, norm |-> normalizeForMatch(fn.text)]
    /\ UNCHANGED pageVars

NextNormalize == NormalizeApply

SpecNormalize == InitNormalize /\ [][NextNormalize]_vars

\* the normal form with digraphs: a, o, u with diaeresis become ae, oe, ue,
\* the sharp s becomes ss, every other combining mark is dropped
RECURSIVE UmlautsToDigraphs(_, _)
UmlautsToDigraphs(s, k) ==
    IF k > Len(s) THEN <<>>
    ELSE IF s[k] = "(:)" /\ k > 1 /\ s[k - 1] \in {"a", "o", "u"}
    THEN <<"e">> \o UmlautsToDigraphs(s, k + 1)
    ELSE IF s[k] \in CombiningMarks THEN UmlautsToDigraphs(s, k + 1)
    ELSE IF s[k] = "sz" THEN <<"s", "s">> \o UmlautsToDigraphs(s, k + 1)
    ELSE <<s[k]>> \o UmlautsToDigraphs(s, k + 1)

DigraphNormal(s) ==
    LET lower == [k \in 1..Len(s) |-> toLowerCase(s[k])]
    IN  Trim(BlankRuns(UmlautsToDigraphs(Decomposed(lower, 1), 1)))

\* C19: normalizeForMatch turns a-umlaut into "ae", o-umlaut into "oe",
\* u-umlaut into "ue" and sharp s into "ss" (Muenchen from the name written
\* with u-umlaut); other accented letters lose only their combining marks.
C19_UmlautsBecomeDigraphs ==
    fn.pc = "normalized" => fn.norm = DigraphNormal(fn.text)

-----------------------------------------------------------------------------
(* Availability on its own: one game, an inventory of four pitches and
   generated booking lists.  Instants are seconds here. *)

AvailPitches == << [id |-> "q1", name |-> <<"P","l","a","t","z"," ","l","i","n","k","s">>, type |-> "GROSSFELD"],
                   [id |-> "q2", name |-> <<"P","l","a","t","z"," ","M","I","T","T","E">>, type |-> "GROSSFELD"],
                   [id |-> "q3", name |-> <<"P","l","a","t","z"," ","r","e","c","h","t","s">>, type |-> "KOMPAKT"],
                   [id |-> "q4", name |-> <<"K","u","n","s","t","r","a","s","e","n"," ","R","e","c","h","t","s">>, type |-> "GROSSFELD"] >>

\* the game, from second 100 to second 200
AvailGame == [uid |-> UidF1, summary |-> <<"A">>, start |-> 100, end |-> 200]

\* selectedBfvTeam?.age_u ?? null
AvailAges == { NoNumber, <<13>>, <<14>>, <<17>> }

\* a booking that ends at the game's start, one that ends a second after it, one
\* that starts a second before the game's end, one that starts at its end
AvailIntervals == { <<0, 100>>, <<0, 101>>, <<199, 300>>, <<200, 300>> }

AvailStatuses == { "APPROVED", "requested", "Rejected", "cancelled" }

AvailBookings ==
    { [id |-> 1, start_at |-> iv[1], end_at |-> iv[2], status |-> st, note |-> NoText,
       pitch_id |-> q] : iv \in AvailIntervals, st \in AvailStatuses, q \in {"q2", "q4"} }

RECURSIVE BookingLists(_)
BookingLists(n) ==
    IF n = 0 THEN { <<>> }
    ELSE LET shorter == BookingLists(n - 1)
         IN  shorter \cup {Append(l, b) : l \in {x \in shorter : Len(x) = n - 1},
                                          b \in AvailBookings}

InitAvail ==
    /\ PageAtRest
    /\ \E a \in AvailAges, l \in BookingLists(MaxBookings) :
          fn = [pc |-> "inputs", pitches |-> AvailPitches, ageU |-> a, game |-> AvailGame,
                bookings |-> l]

\* const candidates = allowedPitchesForAge(selectedBfvTeam?.age_u ?? null)
AvailAllowed ==
    /\ fn.pc = "inputs"
    /\ fn' = [fn EXCEPT !.pc = "candidates"] @@
             [candidates |-> allowedPitchesForAge(fn.pitches, fn.ageU)]
    /\ UNCHANGED pageVars

\* return candidates.filter(...)
AvailFilter ==
    /\ fn.pc = "candidates"
    /\ fn' = [fn EXCEPT !.pc = "avail"] @@
             [avail |-> getAvailablePitches(fn.pitches, fn.ageU, fn.game, fn.bookings)]
    /\ UNCHANGED pageVars

NextAvail == AvailAllowed \/ AvailFilter

SpecAvail == InitAvail /\ [][NextAvail]_vars

\* the ids of a list of pitches
IdsOf(list) == {list[k].id : k \in 1..Len(list)}

\* the bookings of the list on pitch q whose status is requested or approved,
\* in any case of letters
BlockingOn(q) ==
    {k \in 1..Len(fn.bookings) :
        /\ fn.bookings[k].pitch_id = q
        /\ fn.bookings[k].status \in {"requested", "Requested", "REQUESTED",
                                      "approved", "Approved", "APPROVED"}}

\* C21: a blocking booking that ends exactly at the game's start or starts
\* exactly at its end leaves the pitch among the candidates; one that ends a
\* second after the start or starts a second before the end removes it.
C21_OverlapIsHalfOpen ==
    fn.pc = "avail" =>
        \A q \in IdsOf(fn.candidates) :
            /\ (\A k \in BlockingOn(q) :
                    \/ fn.bookings[k].end_at = fn.game.start
                    \/ fn.bookings[k].start_at = fn.game.end) => q \in IdsOf(fn.avail)
            /\ (\E k \in BlockingOn(q) :
                    \/ fn.bookings[k].end_at = fn.game.start + 1
                    \/ fn.bookings[k].start_at = fn.game.end - 1) => q \notin IdsOf(fn.avail)

\* C21 witness: q2 kept with a blocking booking that ends at the game's start,
\* q4 removed by one that starts a second before the game's end
C21_WitnessTouchingAndCrossing ==
    /\ fn.pc = "avail" /\ fn.ageU = <<14>>
    /\ \E k \in BlockingOn("q2") : fn.bookings[k].end_at = fn.game.start
    /\ \E k \in BlockingOn("q4") : fn.bookings[k].start_at = fn.game.end - 1
    /\ IdsOf(fn.avail) = {"q2"}

\* C22: only a booking whose status is requested or approved, in any case of
\* letters, removes a pitch; a rejected booking or one of another status
\* never does, though its interval overlaps the game.
C22_OnlyBlockingStatusesBlock ==
    fn.pc = "avail" =>
        \A q \in IdsOf(fn.candidates) :
            /\ BlockingOn(q) = {} => q \in IdsOf(fn.avail)
            /\ (\E k \in BlockingOn(q) :
                    /\ fn.bookings[k].start_at < fn.game.end
                    /\ fn.game.start < fn.bookings[k].end_at) => q \notin IdsOf(fn.avail)

\* C22 witness: q2 kept with an overlapping rejected booking, q4 removed by an
\* overlapping booking whose status is written "requested"
C22_WitnessRejectedAndLowerCase ==
    /\ fn.pc = "avail" /\ Len(fn.bookings) = 2
    /\ \E j, k \in 1..2 :
          /\ fn.bookings[j] = [id |-> 1, start_at |-> 0, end_at |-> 101,
                               status |-> "Rejected", note |-> NoText, pitch_id |-> "q2"]
          /\ fn.bookings[k] = [id |-> 1, start_at |-> 0, end_at |-> 101,
                               status |-> "requested", note |-> NoText, pitch_id |-> "q4"]
    /\ "q2" \in IdsOf(fn.avail) /\ "q4" \notin IdsOf(fn.avail)

\* C23: from age category 14 on the eligible pitches are the full-size ones
\* whose name holds "mitte" or "rechts" in any case of letters (q2 and q4 of
\* the inventory); without an age category or below 14 every pitch is eligible.
C23_AgeEligibility ==
    fn.pc \in {"candidates", "avail"} =>
        fn.candidates = (IF fn.ageU # NoNumber /\ fn.ageU[1] >= 14
                         THEN <<AvailPitches[2], AvailPitches[4]>>
                         ELSE AvailPitches)

\* C23 witness: age category 14, just q2 and q4 eligible
C23_WitnessFromFourteen ==
    /\ fn.pc = "candidates" /\ fn.ageU = <<14>>
    /\ IdsOf(fn.candidates) = {"q2", "q4"}

\* C24: the result holds exactly the eligible pitches without a blocking
\* booking on the same pitch that overlaps the game, in the order of the
\* inventory; inventory and booking list are as before.
C24_AvailableExactlyUnblocked ==
    fn.pc = "avail" =>
        /\ \A n \in 1..Len(fn.pitches) :
              LET q == fn.pitches[n].id
              IN  (q \in IdsOf(fn.avail)) <=>
                      /\ q \in IdsOf(fn.candidates)
                      /\ ~\E k \in BlockingOn(q) :
                            /\ fn.bookings[k].start_at < fn.game.end
                            /\ fn.game.start < fn.bookings[k].end_at
        /\ \E pos \in [1..Len(fn.avail) -> 1..Len(fn.pitches)] :
              /\ \A i \in 1..Len(fn.avail) : fn.avail[i] = fn.pitches[pos[i]]
              /\ \A i, j \in 1..Len(fn.avail) : i < j => pos[i] < pos[j]
        /\ fn.pitches = AvailPitches

\* C24 witness: no age category, q2 blocked, the three other pitches left in
\* the order of the inventory
C24_WitnessOthersInOrder ==
    /\ fn.pc = "avail" /\ fn.ageU = NoNumber
    /\ Len(fn.bookings) > 0
    /\ fn.avail = <<AvailPitches[1], AvailPitches[3], AvailPitches[4]>>

-----------------------------------------------------------------------------
(* Local team mapping: the team a booking is created for. *)

LowerCased(text) == [k \in 1..Len(text) |-> toLowerCase(text[k])]

\* mutant of resolveLocalTeamId: the name match is preferred to the age match
resolveLocalTeamIdNameFirst(teams, team) ==
    LET bfvName == LowerCased(team.name)
        byName == {k \in 1..Len(teams) : Includes(LowerCased(teams[k].name), bfvName)}
        best == {k \in 1..Len(teams) : team.age_u # NoNumber /\ teams[k].age_u = team.age_u}
    IN  IF byName # {} THEN teams[CHOOSE k \in byName : \A j \in byName : k <= j].id
        ELSE IF best # {} THEN teams[CHOOSE k \in best : \A j \in best : k <= j].id
        ELSE NoText

\* resolveLocalTeamId, with the teams and the selected team it closes over;
\* NoText is null
resolveLocalTeamId(teams, team) ==
    LET targetAge == team.age_u
        best == {k \in 1..Len(teams) : targetAge # NoNumber /\ teams[k].age_u = targetAge}
        bfvName == LowerCased(team.name)
        byName == {k \in 1..Len(teams) : Includes(LowerCased(teams[k].name), bfvName)}
    IN  IF best # {} THEN teams[CHOOSE k \in best : \A j \in best : k <= j].id
        ELSE IF byName # {} THEN teams[CHOOSE k \in byName : \A j \in byName : k <= j].id
        ELSE NoText

\* names and age categories of the generated local teams
LocalNames == { <<"S","V"," ","N","O","R","D"," ","U","1","3">>, <<"N","o","r","d">>, <<"F","C"," ","S","u","e","d">> }
LocalAges == { NoNumber, <<13>>, <<15>> }

\* the selected teams tried
BfvTeamNames == { <<"S","v"," ","N","o","r","d">>, <<"T","S","V">>, <<>> }
BfvTeamAges == { NoNumber, <<13>> }

\* the teams tables of n rows; the row at position k has the id <<"l", k>>
RECURSIVE TeamTables(_)
TeamTables(n) ==
    IF n = 0 THEN { <<>> }
    ELSE LET shorter == TeamTables(n - 1)
         IN  shorter \cup {Append(l, [id |-> <<"l", n>>, name |-> nm, age_u |-> a]) :
                              l \in {x \in shorter : Len(x) = n - 1},
                              nm \in LocalNames, a \in LocalAges}

\* the page with its teams loaded, a selected team, one game and a pitch chosen,
\* a session and an empty store
InitTeam ==
    /\ PageAtRest
    /\ \E t \in TeamTables(MaxTeams), nm \in BfvTeamNames, a \in BfvTeamAges :
          fn = [pc |-> "idle", teams |-> t, team |-> [id |-> "t1", name |-> nm, age_u |-> a],
                store |-> <<>>, error |-> NoError, busyUid |-> NoText, localTeamId |-> NoText]

\* bookApproved up to the insert: setBusyUid, setError(null), the session,
\* resolveLocalTeamId
TeamBookStart ==
    /\ fn.pc = "idle"
    /\ fn' = [fn EXCEPT !.pc = "resolved", !.busyUid = UidF1, !.error = NoError,
                        !.localTeamId = resolveLocalTeamId(fn.teams, fn.team)]
    /\ UNCHANGED pageVars

\* if (!localTeamId) throw: catch and finally
TeamBookNoTeam ==
    /\ fn.pc = "resolved" /\ fn.localTeamId = NoText
    /\ fn' = [fn EXCEPT !.pc = "done", !.error = "no local team", !.busyUid = NoText]
    /\ UNCHANGED pageVars

\* the insert with team_id: localTeamId, accepted by the empty store, and finally
TeamBookInsert ==
    /\ fn.pc = "resolved" /\ fn.localTeamId # NoText
    /\ fn' = [fn EXCEPT !.pc = "done", !.busyUid = NoText,
                        !.store = << [id |-> 1, start_at |-> 2, end_at |-> 4,
                                      status |-> "APPROVED", pitch_id |-> "p1",
                                      team_id |-> fn.localTeamId] >>]
    /\ UNCHANGED pageVars

NextTeam == TeamBookStart \/ TeamBookNoTeam \/ TeamBookInsert

SpecTeam == InitTeam /\ [][NextTeam]_vars

\* the local teams of the selected team's age category, by position
SameAge == {k \in 1..Len(fn.teams) :
               fn.team.age_u # NoNumber /\ fn.teams[k].age_u = fn.team.age_u}

\* the local teams whose name holds the selected team's name, whatever the case
\* of the letters, by position
NameHeld == {k \in 1..Len(fn.teams) :
                \E i \in 1..(Len(fn.teams[k].name) + 1) :
                    OccursAtFold(fn.teams[k].name, fn.team.name, i)}

\* C25: book ends with the no-local-team error and an unchanged store exactly
\* when no local team has the selected team's age category and none holds its
\* name; otherwise the booking is created for the first team of that age
\* category if there is one, else for the first team that holds the name.
C25_LocalTeamResolution ==
    fn.pc = "done" =>
        IF SameAge = {} /\ NameHeld = {}
        THEN fn.error = "no local team" /\ fn.store = <<>>
        ELSE /\ fn.error = NoError
             /\ Len(fn.store) = 1
             /\ LET first(S) == CHOOSE k \in S : \A j \in S : k <= j
                IN  fn.store[1].team_id =
                        <<"l", IF SameAge # {} THEN first(SameAge) ELSE first(NameHeld)>>

\* C25 witness: the first team holds the name, the second has the age
\* category, and the booking is created for the second
C25_WitnessAgeBeforeName ==
    /\ fn.pc = "done"
    /\ 1 \in NameHeld /\ SameAge = {2}
    /\ Len(fn.store) = 1 /\ fn.store[1].team_id = <<"l", 2>>

\* a booking attempt that found no local team
C25_WitnessNoLocalTeam ==
    /\ fn.pc = "done" /\ Len(fn.teams) = MaxTeams
    /\ fn.error = "no local team" /\ fn.store = <<>>

-----------------------------------------------------------------------------
(* Failures of a booking attempt and of a load *)

\* the calls in flight of a kind at a position
CallsAt(bag, kind, pc) ==
    BagCardinality([o \in {x \in BagToSet(bag) : x.kind = kind /\ x.pc = pc} |-> bag[o]])

\* C26: a step in which an awaited insert ends without a new row (the store
\* has rejected it) sets an error message, starts no further call (no retry),
\* leaves the store, the fixture-to-booking map and the fixture-to-pitch map as
\* they were, and clears the busy marker.
C26_RejectedInsertSurfaces ==
    [][ (CallsAt(ops', "book", "insert") < CallsAt(ops, "book", "insert") /\ nextId' = nextId)
        => /\ error' # NoError
           /\ BagCardinality(ops') = BagCardinality(ops) - 1
           /\ CallsAt(ops', "book", "reload") = CallsAt(ops, "book", "reload")
           /\ store' = store
           /\ bookedMap' = bookedMap
           /\ bookedPitchByUid' = bookedPitchByUid
           /\ busyUid' = NoText ]_vars

\* C26 witness: the insert for f1 on p1 was rejected because of the untagged
\* booking on p1; nothing was inserted and nothing is booked
C26_WitnessRejected ==
    /\ AllIdle
    /\ error = "insert rejected"
    /\ busyUid = NoText
    /\ store = <<ExternalBooking>> /\ nextId = 1
    /\ bookedMap = EmptyIdMap /\ bookedPitchByUid = EmptyPitchMap
    /\ games = FeedGames

\* C28: a step in which a load that waits for the feed ends without going on
\* to the store query sets an error message, empties the games shown, clears
\* the loading flag and queries nothing: the store and the loaded bookings
\* are as before.
C28_FetchFailureIsHard ==
    [][ (/\ CallsAt(ops', "load", "fetch") < CallsAt(ops, "load", "fetch")
         /\ CallsAt(ops', "load", "query") = CallsAt(ops, "load", "query"))
        => /\ error' # NoError
           /\ games' = <<>>
           /\ ~loadingGames'
           /\ BagCardinality(ops') = BagCardinality(ops) - 1
           /\ store' = store /\ bookings' = bookings /\ scanFresh' = scanFresh
           /\ bookedMap' = bookedMap /\ bookedPitchByUid' = bookedPitchByUid ]_vars

\* C28 witness: games had been shown and one was booked, then a load failed
\* at the fetch
C28_WitnessFailedAfterShown ==
    /\ AllIdle
    /\ error = "ICS fetch failed"
    /\ games = <<>>
    /\ ~loadingGames
    /\ nextId > 1

-----------------------------------------------------------------------------
(* A store that can leave a game without a free pitch *)

\* a request of another team on p2, inside the range of the feed
CrowdBooking == [id |-> 98, start_at |-> 3, end_at |-> 4, status |-> "REQUESTED",
                 note |-> NoText, pitch_id |-> "p2"]

InitCrowded ==
    /\ store \in InitStores \cup { <<CrowdBooking>>, <<ExternalBooking, CrowdBooking>> }
    /\ nextId = 1
    /\ games = <<>>
    /\ range = NoRange
    /\ bookings = <<>>
    /\ bookedMap = EmptyIdMap
    /\ bookedPitchByUid = EmptyPitchMap
    /\ selectedPitchByUid = EmptyPitchMap
    /\ error = NoError
    /\ busyUid = NoText
    /\ loadingGames = FALSE
    /\ homeOnly = TRUE
    /\ ops = EmptyBag
    /\ scanFresh = FALSE
    /\ fn = [pc |-> "off"]

SpecCrowded == InitCrowded /\ [][NextSeq]_vars

\* the games shown that are not booked and have no candidate pitch
NoCandidate == {k \in 1..Len(games) : ~isBooked(games[k]) /\ Len(avail(games[k])) = 0}

\* C27: book is never invoked for a game that is not booked and has an empty
\* candidate list, and a step after which a game has an empty candidate list
\* that it had not before leaves the error as it was.
C27_EmptyListDisablesBook ==
    [][ /\ \A k \in NoCandidate :
              CallsAt(ops', "book", "insert") > CallsAt(ops, "book", "insert")
                  => \A o \in BagToSet(ops') :
                        (o.kind = "book" /\ o.pc = "insert") => o.game.uid # games[k].uid
        /\ (NoCandidate' # {} /\ (NoCandidate' # NoCandidate \/ games' # games))
              => error' = error ]_vars

\* C27 witness: f2 is shown, not booked and has no candidate pitch, while a
\* pitch is still selected for it; no error is set
C27_WitnessNoCandidate ==
    /\ AllIdle
    /\ NoCandidate = {2}
    /\ selectedPitchByUid[games[2].uid] # NoPitch
    /\ error = NoError

-----------------------------------------------------------------------------
(* The pitch a booking attempt is made with *)

\* C29: whenever book has been invoked for a game with a pitch and waits for
\* its insert, the pitch is one of the game's candidate pitches computed
\* against the loaded bookings.
C29_BookOnlyCandidate ==
    \A o \in InFlight :
        (o.kind = "book" /\ o.pc = "insert")
            => \E n \in 1..Len(avail(o.game)) : avail(o.game)[n].id = o.pitchId

-----------------------------------------------------------------------------
(* Loads that overlap: the load effect is not held back by a load in flight *)

\* "nur Heimspiele" is clicked: setHomeOnly, and the load effect (homeOnly is
\* one of its dependencies) calls loadGames of the new render, up to the fetch
ToggleHomeOnly ==
    /\ FreeSlot
    /\ homeOnly' = ~homeOnly
    /\ loadingGames' = TRUE
    /\ error' = NoError
    /\ ops' = ops (+) SetToBag({[kind |-> "load", pc |-> "fetch", homeOnly |-> ~homeOnly]})
    /\ UNCHANGED << store, nextId, games, range, bookings, bookedMap, bookedPitchByUid,
                    selectedPitchByUid, busyUid, scanFresh, fn >>

NextLoads ==
    \/ LoadStart
    \/ ToggleHomeOnly
    \/ LoadFetchOk
    \/ LoadFetchFail
    \/ LoadQueryOk
    \/ LoadQueryFail

SpecLoads == Init /\ [][NextLoads]_vars

\* C30: once all loads have finished, the games shown are those of the load
\* that was started last, the load with the present state of the home-only
\* checkbox (or none, if that load failed).
C30_LastStartedLoadWins ==
    (AllIdle /\ games # <<>>) => games = HomeOnlyFilter(homeOnly, FeedClassified)

====
